---- MODULE Spec2Model ----
(***************************************************************************)
(* A model of the azemailsender client: the retry loop of                  *)
(* Client.SendWithContext, the single attempt of Client.sendSingleAttempt, *)
(* the authentication headers of Client.addAuthentication, the status      *)
(* fetch of Client.GetStatusWithContext and the polling loop of            *)
(* Client.WaitForCompletionWithContext; Client.SetDebug and                *)
(* Client.SetLogger next to them; NewClientFromConnectionString; the       *)
(* message builder; and the configuration of the command-line tool.        *)
(*                                                                         *)
(* Debug logging (c.options.Debug / c.logger.Printf) writes to a logger    *)
(* and never changes control flow or a returned value; it is left out of   *)
(* the send and wait machines.                                             *)
(***************************************************************************)
EXTENDS Integers, Sequences, FiniteSets, TLC

(***************************************************************************)
(* Bounds of the model.                                                    *)
(***************************************************************************)
\* MaxRetries ranges over -1 .. MaxRetriesBound
MaxRetriesBound == 2
\* the wall clock of the send machine counts seconds 0 .. MaxClock
MaxClock == 1
\* PollInterval ranges over 0 .. MaxPollInterval (time units)
MaxPollInterval == 2
\* MaxWaitTime ranges over 0 .. MaxWaitBound (time units)
MaxWaitBound == 3
\* RetryDelay ranges over 0 .. MaxRetryDelay (seconds)
MaxRetryDelay == 1
\* a connection string has 1 .. MaxParts parts between its semicolons
MaxParts == 3
\* a message has at most MaxRecipients recipients of each kind (to, cc, bcc)
MaxRecipients == 1

(***************************************************************************)
(* Values.                                                                 *)
(***************************************************************************)
\* the nil error
NoErr == [fmt |-> "nil"]
\* a nil *SendResponse / *StatusResponse
Nil == [nil |-> TRUE]

\* fmt.Errorf(format, n, detail) with an optional wrapped cause (%w)
Errorf(format, n, detail, cause) ==
    [fmt |-> format, n |-> n, detail |-> detail, cause |-> cause]

\* errors.Unwrap
Unwrap(e) == IF "cause" \in DOMAIN e THEN e.cause ELSE NoErr

\* ctx.Err() of a cancelled context
CtxCanceled == Errorf("context canceled", 0, "", NoErr)
\* ctx.Err() of a context whose deadline passed
CtxDeadlineExceeded == Errorf("context deadline exceeded", 0, "", NoErr)

AuthMethodAccessKey == "AccessKey"
AuthMethodHMAC == "HMAC"
AuthMethodConnectionString == "ConnectionString"
AuthMethods == {AuthMethodAccessKey, AuthMethodHMAC, AuthMethodConnectionString}

StatusDelivered == "Delivered"
StatusFailed == "Failed"
StatusCanceled == "Canceled"

(***************************************************************************)
(* base64.StdEncoding.DecodeString: a key is a sequence of characters; it  *)
(* decodes iff its length is a multiple of 4, every character is of the    *)
(* standard alphabet and '=' padding stands only in the last two places    *)
(* (a padded last-but-one place needs a padded last place).                *)
(***************************************************************************)
Base64Alphabet ==
    {"A","B","C","D","E","F","G","H","I","J","K","L","M","N","O","P","Q","R",
     "S","T","U","V","W","X","Y","Z","a","b","c","d","e","f","g","h","i","j",
     "k","l","m","n","o","p","q","r","s","t","u","v","w","x","y","z","0","1",
     "2","3","4","5","6","7","8","9","+","/"}

Base64Decodes(key) ==
    /\ Len(key) % 4 = 0
    /\ \A i \in 1..Len(key) :
          \/ key[i] \in Base64Alphabet
          \/ /\ key[i] = "="
             /\ i >= Len(key) - 1
             /\ (i = Len(key) - 1 => key[Len(key)] = "=")

\* the access keys a client is constructed with
AccessKeys == { <<"Q","U","J","D">>, <<"n","o","t","-","b","6","4">> }

(***************************************************************************)
(* URLs are sequences of tokens: scheme, host, path, "?", query.           *)
(***************************************************************************)
\* the endpoints a client is constructed with
Endpoints == { <<"https://", "acs.test">>,
               <<"https://", "acs.test", "/">>,
               <<"https://", "acs\\x7f">> }

\* strings.TrimSuffix(endpoint, "/")
TrimSuffixSlash(e) ==
    IF Len(e) > 0 /\ e[Len(e)] = "/" THEN SubSeq(e, 1, Len(e) - 1) ELSE e

APIVersion == "2024-07-01-preview"

\* options.HTTPTimeout, in seconds
HTTPTimeout == 1

\* log.New(os.Stdout, "[AzEmailSender] ", log.LstdFlags), and the loggers a
\* caller can pass to SetLogger
StdoutLogger == "stdout"
Loggers == {StdoutLogger, "custom"}

\* fmt.Sprintf("%s/emails:send?api-version=%s", c.endpoint, c.options.APIVersion)
SendURL(e, ver) == e \o <<"/emails:send", "?", "api-version=" \o ver>>

\* url.Parse succeeds unless the URL holds a control character
URLParses(u) == \A i \in 1..Len(u) : u[i] # "acs\\x7f"

\* parsedURL.Host, parsedURL.Path, parsedURL.RawQuery
URLHost(u) == u[2]
QIndex(u) == CHOOSE i \in 1..Len(u) : u[i] = "?"
URLPath(u) == SubSeq(u, 3, QIndex(u) - 1)
URLRawQuery(u) == SubSeq(u, QIndex(u) + 1, Len(u))

VARIABLES
    \* the client (CLI.md, type Client)
    endpoint, accessKey, authMethod, maxRetries,
    \* the rest of ClientOptions, and the logger field of Client
    retryDelay, apiVersion, httpTimeout, debug, logger, optLogger,
    \* Client.SendWithContext
    spc, attempt, lastErr, message, body, url, sret, sctxDone, clock,
    request, httpAttempts, waits, lastOutcome, seen2xx, after2xx,
    woke, prevRequest, sInFlight,
    \* WaitOptions
    pollInterval, maxWaitTime, hasOnError, hasOnStatusUpdate,
    \* Client.WaitForCompletionWithContext
    wpc, wctxErr, untilDeadline, untilTick, tickReady, wstatus, werr, wret,
    wobj, lastObserved, onErrorCalls, onErrorArg, onUpdateCalls, onUpdateArg,
    fetchAfterFinal, wInFlight,
    \* Client.GetStatusWithContext called on its own
    gpc, gctxDone, grequest, gret, gAttempts, gOutcome,
    \* goroutines calling Client.SetDebug and Client.SetLogger
    sdpc, sdArg, slpc, slArg,
    \* the call the program makes on the client besides SetDebug and SetLogger
    op,
    \* the call of a function on an input: which, its argument, its result
    ppc, pin, pout,
    \* the ClientOptions objects of the caller by address, the clients built
    \* on them, and the last call made on them
    optionsHeap, clients, lastCall

clientVars == <<endpoint, accessKey, authMethod, maxRetries, retryDelay,
                apiVersion, httpTimeout, debug, logger, optLogger>>
sendVars == <<spc, attempt, lastErr, message, body, url, sret, sctxDone, clock,
              request, httpAttempts, waits, lastOutcome, seen2xx, after2xx,
              woke, prevRequest, sInFlight>>
optVars == <<pollInterval, maxWaitTime, hasOnError, hasOnStatusUpdate>>
waitVars == <<wpc, wctxErr, untilDeadline, untilTick, tickReady, wstatus, werr,
              wret, wobj, lastObserved, onErrorCalls, onErrorArg, onUpdateCalls,
              onUpdateArg, fetchAfterFinal, wInFlight>>
getVars == <<gpc, gctxDone, grequest, gret, gAttempts, gOutcome>>
setVars == <<sdpc, sdArg, slpc, slArg, op>>
pureVars == <<ppc, pin, pout>>
heapVars == <<optionsHeap, clients, lastCall>>
vars == <<clientVars, sendVars, optVars, waitVars, getVars, setVars, pureVars,
         heapVars>>

(***************************************************************************)
(* Requests, responses and the transport.                                  *)
(***************************************************************************)
\* the message handed to Send; json.Marshal(message) and string(body)
Message == [SenderAddress |-> "a@x.com", Subject |-> "Hi"]
Marshal(m) == <<"json", m>>
\* the empty string
EmptyString == <<>>

\* response bodies the service may send
SendBody1 == [valid |-> TRUE, id |-> "msg-1", status |-> "Queued", message |-> "", raw |-> "json-1"]
SendBody2 == [valid |-> TRUE, id |-> "msg-2", status |-> "Running", message |-> "", raw |-> "json-2"]
ErrorBody == [valid |-> TRUE, id |-> "", status |-> "", message |-> "BadRequest", raw |-> "json-err"]
GarbageBody == [valid |-> FALSE, id |-> "", status |-> "", message |-> "", raw |-> "<html>"]
SendBodies == {SendBody1, SendBody2, ErrorBody, GarbageBody}

\* HTTP status codes the service may answer with
StatusCodes == {200, 299, 300, 400, 500}

\* what httpClient.Do and io.ReadAll can come back with
TransportError(e) == [kind |-> "error", cause |-> e, status |-> 0, body |-> GarbageBody]
ReadFailure(code) == [kind |-> "readfail", cause |-> Errorf("unexpected EOF", 0, "", NoErr),
                      status |-> code, body |-> GarbageBody]
Response(code, b) == [kind |-> "response", cause |-> NoErr, status |-> code, body |-> b]
NoOutcome == [kind |-> "none"]

ConnRefused == Errorf("connection refused", 0, "", NoErr)
ClientTimeout == Errorf("Client.Timeout exceeded", 0, "", NoErr)

\* the outcomes of one request; a request whose context is done when Do
\* returns comes back with the context's error or a failed body read
Outcomes(ctxErr, codes, bodies) ==
    IF ctxErr # NoErr
    THEN {TransportError(ctxErr), ReadFailure(200)}
    ELSE {TransportError(ConnRefused), TransportError(ClientTimeout), ReadFailure(200)}
         \cup {Response(c, b) : c \in codes, b \in bodies}

(***************************************************************************)
(* Client.generateHMACSignature and Client.addAuthentication.              *)
(***************************************************************************)
\* time.Now().UTC().Format(time.RFC1123): one-second resolution
FormatRFC1123(now) == <<"RFC1123", now>>

\* base64(HMAC-SHA256(decoded key, stringToSign)); "" when the key does not decode
generateHMACSignature(key, method, uri, host, dateHeader, b) ==
    LET stringToSign == <<method, "\n", uri, "\n", host, ";", dateHeader, ";", b>>
    IN  IF ~Base64Decodes(key) THEN EmptyString
        ELSE <<"base64", <<"HMAC-SHA256", key, stringToSign>>>>

\* base64(SHA-256(body))
ContentHash(b) == <<"base64", <<"SHA256", b>>>>

\* addAuthentication setting the api-key header in every mode
addAuthentication_KeyInEveryMode(authM, key, hdrs, httpMethod, u, b, now) ==
    CASE authM = AuthMethodAccessKey ->
            [headers |-> ("api-key" :> key) @@ hdrs, err |-> NoErr]
      [] authM \in {AuthMethodHMAC, AuthMethodConnectionString} ->
            LET dateHeader == FormatRFC1123(now)
                signature == generateHMACSignature(key, httpMethod,
                                 URLPath(u) \o <<"?">> \o URLRawQuery(u),
                                 URLHost(u), dateHeader, b)
                authHeader == <<"HMAC-SHA256 SignedHeaders=date;host;x-ms-content-sha256&Signature=",
                                signature>>
            IN  [headers |-> ("api-key" :> key) @@ ("Date" :> dateHeader)
                               @@ ("Authorization" :> authHeader)
                               @@ ("x-ms-content-sha256" :> ContentHash(b)) @@ hdrs,
                 err |-> NoErr]
      [] OTHER -> [headers |-> hdrs,
                   err |-> Errorf("unsupported authentication method", 0, authM, NoErr)]

\* addAuthentication with the date computed once, at time 0, and reused
addAuthentication_CachedDate(authM, key, hdrs, httpMethod, u, b, now) ==
    CASE authM = AuthMethodAccessKey ->
            [headers |-> ("api-key" :> key) @@ hdrs, err |-> NoErr]
      [] authM \in {AuthMethodHMAC, AuthMethodConnectionString} ->
            LET dateHeader == FormatRFC1123(0)
                signature == generateHMACSignature(key, httpMethod,
                                 URLPath(u) \o <<"?">> \o URLRawQuery(u),
                                 URLHost(u), dateHeader, b)
                authHeader == <<"HMAC-SHA256 SignedHeaders=date;host;x-ms-content-sha256&Signature=",
                                signature>>
            IN  [headers |-> ("Date" :> dateHeader) @@ ("Authorization" :> authHeader)
                               @@ ("x-ms-content-sha256" :> ContentHash(b)) @@ hdrs,
                 err |-> NoErr]
      [] OTHER -> [headers |-> hdrs,
                   err |-> Errorf("unsupported authentication method", 0, authM, NoErr)]

\* the headers addAuthentication sets on top of hdrs, and its error
addAuthentication(authM, key, hdrs, httpMethod, u, b, now) ==
    CASE authM = AuthMethodAccessKey ->
            [headers |-> ("api-key" :> key) @@ hdrs, err |-> NoErr]
      [] authM \in {AuthMethodHMAC, AuthMethodConnectionString} ->
            LET dateHeader == FormatRFC1123(now)
                signature == generateHMACSignature(key, httpMethod,
                                 URLPath(u) \o <<"?">> \o URLRawQuery(u),
                                 URLHost(u), dateHeader, b)
                authHeader == <<"HMAC-SHA256 SignedHeaders=date;host;x-ms-content-sha256&Signature=",
                                signature>>
            IN  [headers |-> ("Date" :> dateHeader) @@ ("Authorization" :> authHeader)
                               @@ ("x-ms-content-sha256" :> ContentHash(b)) @@ hdrs,
                 err |-> NoErr]
      [] OTHER -> [headers |-> hdrs,
                   err |-> Errorf("unsupported authentication method", 0, authM, NoErr)]

NoRequest == [method |-> "none"]

(***************************************************************************)
(* Client.sendSingleAttempt, in two halves: up to httpClient.Do, and from  *)
(* what Do returned.                                                       *)
(***************************************************************************)
\* the request handed to the transport, or the error that precedes it
AttemptRequest(authM, key, u, b, now) ==
    IF ~URLParses(u)
    THEN [req |-> NoRequest,
          err |-> Errorf("failed to create HTTP request: %w", 0, "",
                         Errorf("invalid control character in URL", 0, "", NoErr))]
    ELSE LET hdrs == ("Content-Type" :> <<"application/json">>)
                       @@ ("User-Agent" :> <<"azemailsender-go/1.0">>)
             auth == addAuthentication(authM, key, hdrs, "POST", u, b, now)
         IN  IF auth.err # NoErr
             THEN [req |-> NoRequest,
                   err |-> Errorf("failed to add authentication: %w", 0, "", auth.err)]
             ELSE [req |-> [method |-> "POST", url |-> u, headers |-> auth.headers, body |-> b],
                   err |-> NoErr]

\* resp.StatusCode < 200 || resp.StatusCode >= 300
IsErrorStatus(code) == code < 200 \/ code >= 300

\* the (response, error) pair of sendSingleAttempt for what the transport returned
AttemptResult(o) ==
    CASE o.kind = "error" ->
            [resp |-> Nil, err |-> Errorf("HTTP request failed: %w", 0, "", o.cause)]
      [] o.kind = "readfail" ->
            [resp |-> Nil, err |-> Errorf("failed to read response body: %w", 0, "", o.cause)]
      [] OTHER ->
            IF IsErrorStatus(o.status)
            THEN [resp |-> Nil,
                  err |-> Errorf("API request failed with status %d: %s", o.status,
                                 IF o.body.valid THEN o.body.message ELSE o.body.raw, NoErr)]
            ELSE IF ~o.body.valid
                 THEN [resp |-> Nil,
                       err |-> Errorf("failed to parse response: %w", 0, "",
                                      Errorf("invalid character", 0, "", NoErr))]
                 ELSE [resp |-> [ID |-> o.body.id, Status |-> o.body.status,
                                 MessageID |-> "", Timestamp |-> -1],
                       err |-> NoErr]

(***************************************************************************)
(* Client.GetStatusWithContext, in two halves like sendSingleAttempt.      *)
(***************************************************************************)
MessageID == "msg-1"

\* fmt.Sprintf("%s/emails/operations/%s?api-version=%s", ...)
StatusURL(e, id, ver) == e \o <<"/emails/operations/", id, "?", "api-version=" \o ver>>

\* the GET request handed to the transport, or the error that precedes it
GetStatusRequest(authM, key, u, now) ==
    IF ~URLParses(u)
    THEN [req |-> NoRequest,
          err |-> Errorf("failed to create status request: %w", 0, "",
                         Errorf("invalid control character in URL", 0, "", NoErr))]
    ELSE LET hdrs == ("User-Agent" :> <<"azemailsender-go/1.0">>)
             auth == addAuthentication(authM, key, hdrs, "GET", u, EmptyString, now)
         IN  IF auth.err # NoErr
             THEN [req |-> NoRequest,
                   err |-> Errorf("failed to add authentication: %w", 0, "", auth.err)]
             ELSE [req |-> [method |-> "GET", url |-> u, headers |-> auth.headers,
                            body |-> EmptyString],
                   err |-> NoErr]

\* the (status, error) pair of GetStatusWithContext for what the transport
\* returned; obj names the StatusResponse the call allocates
GetStatusResult(o, obj) ==
    CASE o.kind = "error" ->
            [resp |-> Nil, err |-> Errorf("status request failed: %w", 0, "", o.cause)]
      [] o.kind = "readfail" ->
            [resp |-> Nil, err |-> Errorf("failed to read status response: %w", 0, "", o.cause)]
      [] OTHER ->
            IF IsErrorStatus(o.status)
            THEN [resp |-> Nil,
                  err |-> Errorf("status check failed with status %d: %s", o.status,
                                 o.body.raw, NoErr)]
            ELSE IF ~o.body.valid
                 THEN [resp |-> Nil,
                       err |-> Errorf("failed to parse status response: %w", 0, "",
                                      Errorf("invalid character", 0, "", NoErr))]
                 ELSE [resp |-> [ID |-> o.body.id, Status |-> o.body.status, obj |-> obj],
                       err |-> NoErr]

\* the statuses the service may report
Statuses == {"Queued", "Sending", StatusDelivered, StatusFailed, StatusCanceled}
StatusBodies ==
    {[valid |-> TRUE, id |-> MessageID, status |-> st, message |-> "", raw |-> "json"] :
        st \in Statuses} \cup {GarbageBody}
\* the status codes the status endpoint answers with
PollStatusCodes == {200, 404}

\* isFinalStatus without StatusCanceled in its list
isFinalStatus_NoCanceled(status) == status \in {StatusDelivered, StatusFailed}

\* isFinalStatus
isFinalStatus(status) == status \in {StatusDelivered, StatusFailed, StatusCanceled}

(***************************************************************************)
(* Client.SendWithContext.                                                 *)
(*   spc: idle -> loop -> (inflight | retryWait)* -> done                  *)
(* Ghost state: httpAttempts counts the requests handed to httpClient.Do,  *)
(* waits the retry delays waited out, lastOutcome is what the transport    *)
(* returned last, seen2xx says a 2xx response arrived in this call and     *)
(* after2xx that a request was issued after one, prevRequest is the        *)
(* request of the attempt before the last one, sInFlight counts the        *)
(* requests the transport has not answered yet.                            *)
(* woke is the case the select of the retry wait is committed to: "none"   *)
(* while the goroutine is blocked, "timer" or "ctx" once a channel was     *)
(* ready when the select was reached or became ready first afterwards.     *)
(***************************************************************************)
\* no WaitForCompletion call has been made
WaitIdle ==
    /\ wpc = "idle" /\ wctxErr = NoErr
    /\ untilDeadline = 0 /\ untilTick = 0 /\ tickReady = FALSE
    /\ wstatus = Nil /\ werr = NoErr
    /\ wret = [resp |-> Nil, err |-> NoErr]
    /\ wobj = 0 /\ lastObserved = Nil
    /\ onErrorCalls = 0 /\ onErrorArg = NoErr
    /\ onUpdateCalls = 0 /\ onUpdateArg = Nil
    /\ fetchAfterFinal = FALSE
    /\ wInFlight = 0

\* no GetStatus call of its own has been made
GetIdle ==
    /\ gpc = "idle" /\ gctxDone = FALSE /\ grequest = NoRequest
    /\ gret = [resp |-> Nil, err |-> NoErr]
    /\ gAttempts = 0 /\ gOutcome = NoOutcome

\* no goroutine calls SetDebug or SetLogger
SettersIdle ==
    /\ sdpc = "idle" /\ sdArg = FALSE
    /\ slpc = "idle" /\ slArg = StdoutLogger

\* no function is under evaluation
PureIdle ==
    /\ ppc = "idle" /\ pin = <<>> /\ pout = <<>>

\* a client that is not built yet
NoClient == [built |-> FALSE, options |-> 0, logger |-> "nil"]

\* no ClientOptions object is shared between clients
HeapIdle ==
    /\ optionsHeap = <<>> /\ clients = <<>> /\ lastCall = [call |-> "none"]

\* the WaitOptions of a run that never calls WaitForCompletion
WaitOptionsUnused ==
    /\ pollInterval = 1 /\ maxWaitTime = 1
    /\ hasOnError = FALSE /\ hasOnStatusUpdate = FALSE

SendIdle ==
    /\ spc = "idle" /\ attempt = 0 /\ lastErr = NoErr
    /\ message = Message
    /\ body = EmptyString /\ url = EmptyString
    /\ sret = [resp |-> Nil, err |-> NoErr]
    /\ sctxDone = FALSE /\ clock = 0
    /\ request = NoRequest /\ httpAttempts = 0 /\ waits = 0
    /\ lastOutcome = NoOutcome /\ seen2xx = FALSE /\ after2xx = FALSE
    /\ woke = "none" /\ prevRequest = NoRequest /\ sInFlight = 0

\* NewClient / NewClientFromConnectionString / NewClientWithAccessKey
ClientInit ==
    /\ endpoint \in {TrimSuffixSlash(e) : e \in Endpoints}
    /\ accessKey \in AccessKeys
    /\ authMethod \in AuthMethods
    /\ maxRetries \in -1..MaxRetriesBound
    /\ retryDelay \in 0..MaxRetryDelay
    /\ apiVersion = APIVersion
    /\ httpTimeout = HTTPTimeout
    /\ debug = FALSE
    /\ logger = StdoutLogger
    /\ optLogger = StdoutLogger

\* fmt.Errorf("failed to send email after %d attempts: %w", MaxRetries+1, lastErr)
AggregateError(n, le) == Errorf("failed to send email after %d attempts: %w", n, "", le)

\* lines 107-143: serialize the message, build the URL, enter the loop
SendStart ==
    /\ UNCHANGED <<clientVars, optVars, waitVars, getVars, setVars, pureVars, heapVars>>
    /\ spc = "idle"
    /\ body' = Marshal(message)
    /\ url' = SendURL(endpoint, apiVersion)
    /\ attempt' = 0
    /\ lastErr' = NoErr
    /\ spc' = "loop"
    /\ UNCHANGED <<message, sret, sctxDone, clock, request, httpAttempts, waits,
                   lastOutcome, seen2xx, after2xx, woke, prevRequest, sInFlight>>

\* line 177: the loop is over
Exhausted(le) ==
    /\ spc' = "done"
    /\ sret' = [resp |-> Nil, err |-> AggregateError(maxRetries + 1, le)]

\* lines 148-154, the select when it is reached: the case it takes at once,
\* or "none" when no channel is ready and the goroutine blocks.  ctx.Done()
\* is ready when the context is done already; the channel of
\* time.After(RetryDelay) can be ready only for a delay that is not positive.
\* Go's select picks among the ready cases at random.
SelectAtEntry(delay, ctxDone) ==
    (IF delay <= 0 THEN {"timer"} ELSE {})
      \cup (IF ctxDone THEN {"ctx"} ELSE {"none"})

\* AttemptFailed with the loop bound off by one (attempt < MaxRetries)
AttemptFailed_OffByOne(att, err) ==
    /\ lastErr' = err
    /\ attempt' = att + 1
    /\ IF att + 1 < maxRetries
       THEN /\ spc' = "retryWait" /\ sret' = sret
            /\ woke' \in SelectAtEntry(retryDelay, sctxDone)
       ELSE Exhausted(err) /\ woke' = "none"

\* lines 171-175 and the loop head of lines 143-148 after attempt att failed
\* with err
AttemptFailed(att, err) ==
    /\ lastErr' = err
    /\ attempt' = att + 1
    /\ IF att + 1 <= maxRetries
       THEN /\ spc' = "retryWait" /\ sret' = sret
            /\ woke' \in SelectAtEntry(retryDelay, sctxDone)
       ELSE Exhausted(err) /\ woke' = "none"

\* IssueAttempt with the URL built per attempt, the retries marked in it
IssueAttempt_URLPerAttempt ==
    LET r == AttemptRequest(authMethod, accessKey,
                            url \o (IF attempt > 0 THEN <<"&retry=1">> ELSE <<>>),
                            body, clock) IN
    IF r.err # NoErr
    THEN /\ AttemptFailed(attempt, r.err)
         /\ UNCHANGED <<request, httpAttempts, after2xx, prevRequest, sInFlight>>
    ELSE /\ spc' = "inflight"
         /\ request' = r.req
         /\ prevRequest' = request
         /\ httpAttempts' = httpAttempts + 1
         /\ sInFlight' = sInFlight + 1
         /\ after2xx' = (after2xx \/ seen2xx)
         /\ woke' = "none"
         /\ UNCHANGED <<attempt, lastErr, sret>>

\* line 157 up to httpClient.Do (line 207)
IssueAttempt ==
    LET r == AttemptRequest(authMethod, accessKey, url, body, clock) IN
    IF r.err # NoErr
    THEN /\ AttemptFailed(attempt, r.err)
         /\ UNCHANGED <<request, httpAttempts, after2xx, prevRequest, sInFlight>>
    ELSE /\ spc' = "inflight"
         /\ request' = r.req
         /\ prevRequest' = request
         /\ httpAttempts' = httpAttempts + 1
         /\ sInFlight' = sInFlight + 1
         /\ after2xx' = (after2xx \/ seen2xx)
         /\ woke' = "none"
         /\ UNCHANGED <<attempt, lastErr, sret>>

\* SendFirst with the retry wait ahead of every attempt, the first included
\* (the test of line 144 dropped)
SendFirst_WaitsFirst ==
    /\ UNCHANGED <<clientVars, optVars, waitVars, getVars, setVars, pureVars, heapVars>>
    /\ spc = "loop"
    /\ IF attempt <= maxRetries
       THEN /\ spc' = "retryWait"
            /\ woke' \in SelectAtEntry(retryDelay, sctxDone)
            /\ UNCHANGED <<attempt, lastErr, sret, request, httpAttempts,
                           after2xx, prevRequest, sInFlight>>
       ELSE /\ Exhausted(lastErr)
            /\ UNCHANGED <<attempt, lastErr, request, httpAttempts, after2xx,
                           woke, prevRequest, sInFlight>>
    /\ UNCHANGED <<message, body, url, sctxDone, clock, waits, lastOutcome, seen2xx>>

\* line 143 with attempt = 0: the first attempt, or no attempt at all
SendFirst ==
    /\ UNCHANGED <<clientVars, optVars, waitVars, getVars, setVars, pureVars, heapVars>>
    /\ spc = "loop"
    /\ IF attempt <= maxRetries
       THEN IssueAttempt
       ELSE /\ Exhausted(lastErr)
            /\ UNCHANGED <<attempt, lastErr, request, httpAttempts, after2xx,
                           woke, prevRequest, sInFlight>>
    /\ UNCHANGED <<message, body, url, sctxDone, clock, waits, lastOutcome, seen2xx>>

\* the timer of time.After(c.options.RetryDelay) expires while the goroutine
\* is blocked in the select: the send on its channel wakes the goroutine
RetryTimerExpires ==
    /\ UNCHANGED <<clientVars, optVars, waitVars, getVars, setVars, pureVars, heapVars>>
    /\ spc = "retryWait"
    /\ woke = "none"
    /\ woke' = "timer"
    /\ UNCHANGED <<spc, attempt, lastErr, message, body, url, sret, sctxDone, clock,
                   request, httpAttempts, waits, lastOutcome, seen2xx, after2xx,
                   prevRequest, sInFlight>>

\* lines 149-154: case <-time.After(c.options.RetryDelay)
RetryTimerFires ==
    /\ UNCHANGED <<clientVars, optVars, waitVars, getVars, setVars, pureVars, heapVars>>
    /\ spc = "retryWait"
    /\ woke = "timer"
    /\ waits' = waits + 1
    /\ IssueAttempt
    /\ UNCHANGED <<message, body, url, sctxDone, clock, lastOutcome, seen2xx>>

\* RetryCtxDone leaving the select only, so that the loop goes on to the
\* next attempt
RetryCtxDone_BreaksSelectOnly ==
    /\ UNCHANGED <<clientVars, optVars, waitVars, getVars, setVars, pureVars, heapVars>>
    /\ spc = "retryWait"
    /\ woke = "ctx"
    /\ IssueAttempt
    /\ UNCHANGED <<message, body, url, sctxDone, clock, waits, lastOutcome, seen2xx>>

\* lines 149-151: case <-ctx.Done(): return nil, ctx.Err()
RetryCtxDone ==
    /\ UNCHANGED <<clientVars, optVars, waitVars, getVars, setVars, pureVars, heapVars>>
    /\ spc = "retryWait"
    /\ woke = "ctx"
    /\ spc' = "done"
    /\ sret' = [resp |-> Nil, err |-> CtxCanceled]
    /\ woke' = "none"
    /\ UNCHANGED <<attempt, lastErr, message, body, url, sctxDone, clock, request,
                   httpAttempts, waits, lastOutcome, seen2xx, after2xx,
                   prevRequest, sInFlight>>

\* SendSucceeded returning the error of the previous attempt with the response
SendSucceeded_ReportsLastErr(resp) ==
    /\ spc' = "done"
    /\ sret' = [resp |-> [resp EXCEPT !.MessageID = resp.ID, !.Timestamp = clock],
                err |-> lastErr]
    /\ UNCHANGED <<attempt, lastErr, woke>>

\* lines 158-169: the attempt succeeded
SendSucceeded(resp) ==
    /\ spc' = "done"
    /\ sret' = [resp |-> [resp EXCEPT !.MessageID = resp.ID, !.Timestamp = clock],
                err |-> NoErr]
    /\ UNCHANGED <<attempt, lastErr, woke>>

\* HttpDoReturns ending the loop at once on a 4xx response
HttpDoReturns_4xxNotRetried ==
    /\ UNCHANGED <<clientVars, optVars, waitVars, getVars, setVars, pureVars, heapVars>>
    /\ spc = "inflight"
    /\ \E o \in Outcomes(IF sctxDone THEN CtxCanceled ELSE NoErr, StatusCodes, SendBodies) :
          LET r == AttemptResult(o) IN
          /\ lastOutcome' = o
          /\ seen2xx' = (seen2xx \/ (o.kind = "response" /\ ~IsErrorStatus(o.status)))
          /\ IF r.err = NoErr
             THEN SendSucceeded(r.resp)
             ELSE IF o.kind = "response" /\ o.status \in 400..499
                  THEN /\ lastErr' = r.err
                       /\ attempt' = attempt + 1
                       /\ Exhausted(r.err)
                       /\ woke' = "none"
                  ELSE AttemptFailed(attempt, r.err)
    /\ sInFlight' = sInFlight - 1
    /\ UNCHANGED <<message, body, url, sctxDone, clock, request, httpAttempts, waits,
                   after2xx, prevRequest>>

\* httpClient.Do returns (line 207) and the rest of the iteration runs
HttpDoReturns ==
    /\ UNCHANGED <<clientVars, optVars, waitVars, getVars, setVars, pureVars, heapVars>>
    /\ spc = "inflight"
    /\ \E o \in Outcomes(IF sctxDone THEN CtxCanceled ELSE NoErr, StatusCodes, SendBodies) :
          LET r == AttemptResult(o) IN
          /\ lastOutcome' = o
          /\ seen2xx' = (seen2xx \/ (o.kind = "response" /\ ~IsErrorStatus(o.status)))
          /\ IF r.err = NoErr
             THEN SendSucceeded(r.resp)
             ELSE AttemptFailed(attempt, r.err)
    /\ sInFlight' = sInFlight - 1
    /\ UNCHANGED <<message, body, url, sctxDone, clock, request, httpAttempts, waits,
                   after2xx, prevRequest>>

\* the caller cancels the context passed to SendWithContext
SendCancel ==
    /\ UNCHANGED <<clientVars, optVars, waitVars, getVars, setVars, pureVars, heapVars>>
    /\ spc # "done"
    /\ ~sctxDone
    /\ sctxDone' = TRUE
    /\ woke' = IF spc = "retryWait" /\ woke = "none" THEN "ctx" ELSE woke
    /\ UNCHANGED <<spc, attempt, lastErr, message, body, url, sret, clock, request,
                   httpAttempts, waits, lastOutcome, seen2xx, after2xx,
                   prevRequest, sInFlight>>

\* a second of wall-clock time passes
SendClockTick ==
    /\ UNCHANGED <<clientVars, optVars, waitVars, getVars, setVars, pureVars, heapVars>>
    /\ spc # "done"
    /\ clock < MaxClock
    /\ clock' = clock + 1
    /\ UNCHANGED <<spc, attempt, lastErr, message, body, url, sret, sctxDone, request,
                   httpAttempts, waits, lastOutcome, seen2xx, after2xx,
                   woke, prevRequest, sInFlight>>

SendInit ==
    /\ ClientInit /\ SendIdle /\ WaitIdle /\ WaitOptionsUnused
    /\ GetIdle /\ SettersIdle /\ PureIdle /\ HeapIdle
    /\ op = "Send"

SendNext ==
    \/ SendStart
    \/ SendFirst
    \/ RetryTimerExpires
    \/ RetryTimerFires
    \/ RetryCtxDone
    \/ HttpDoReturns
    \/ SendCancel
    \/ SendClockTick

SendSpec == SendInit /\ [][SendNext]_vars

(***************************************************************************)
(* Client.WaitForCompletionWithContext.                                    *)
(*   wpc: idle -> fetching -> (selectErr | selectOk -> fetching)* -> done  *)
(* Time is counted down: untilDeadline to the deadline of                  *)
(* context.WithTimeout, untilTick to the next tick of the ticker, whose    *)
(* channel buffers one tick (tickReady).  wctxErr is ctx.Err().            *)
(* Ghost state: wobj names the StatusResponse of the current fetch,        *)
(* lastObserved is the last StatusResponse a fetch returned, onErrorCalls  *)
(* and onUpdateCalls count the callbacks since the current fetch was       *)
(* issued, fetchAfterFinal says a fetch was issued after a final status    *)
(* had been fetched, wInFlight counts the status requests the transport    *)
(* has not answered yet.                                                   *)
(***************************************************************************)
\* line 346-351: the next iteration calls GetStatusWithContext
IssueFetch ==
    /\ wpc' = "fetching"
    /\ wInFlight' = wInFlight + 1
    /\ wobj' = 1 - wobj
    /\ wstatus' = Nil
    /\ werr' = NoErr
    /\ onErrorCalls' = 0 /\ onErrorArg' = NoErr
    /\ onUpdateCalls' = 0 /\ onUpdateArg' = Nil
    /\ fetchAfterFinal' =
          (fetchAfterFinal
             \/ (lastObserved # Nil
                   /\ lastObserved.Status \in {"Delivered", "Failed", "Canceled"}))

\* lines 326-351: context.WithTimeout, time.NewTicker (which panics on a
\* non-positive interval), and the first iteration
WaitStart ==
    /\ UNCHANGED <<clientVars, sendVars, optVars, getVars, setVars, pureVars, heapVars>>
    /\ wpc = "idle"
    /\ IF pollInterval <= 0
       THEN /\ wpc' = "panicked"
            /\ UNCHANGED <<wctxErr, untilDeadline, untilTick, tickReady, wstatus,
                           werr, wret, wobj, lastObserved, onErrorCalls,
                           onErrorArg, onUpdateCalls, onUpdateArg, fetchAfterFinal,
                   wInFlight>>
       ELSE /\ wctxErr' = IF wctxErr # NoErr THEN wctxErr
                          ELSE IF maxWaitTime <= 0 THEN CtxDeadlineExceeded
                          ELSE NoErr
            /\ untilDeadline' = IF maxWaitTime > 0 THEN maxWaitTime ELSE 0
            /\ untilTick' = pollInterval
            /\ tickReady' = FALSE
            /\ IssueFetch
            /\ UNCHANGED <<wret, lastObserved>>

\* FetchFailed returning the error of the fetch to the caller
FetchFailed_Aborts(err) ==
    /\ werr' = err
    /\ wstatus' = Nil
    /\ onErrorCalls' = IF hasOnError THEN onErrorCalls + 1 ELSE onErrorCalls
    /\ onErrorArg' = IF hasOnError THEN err ELSE onErrorArg
    /\ wpc' = "done"
    /\ wret' = [resp |-> Nil, err |-> err]
    /\ UNCHANGED <<lastObserved, onUpdateCalls, onUpdateArg>>

\* lines 352-367 up to the select: the fetch failed
FetchFailed(err) ==
    /\ werr' = err
    /\ wstatus' = Nil
    /\ onErrorCalls' = IF hasOnError THEN onErrorCalls + 1 ELSE onErrorCalls
    /\ onErrorArg' = IF hasOnError THEN err ELSE onErrorArg
    /\ wpc' = "selectErr"
    /\ UNCHANGED <<wret, lastObserved, onUpdateCalls, onUpdateArg>>

\* FetchSucceeded with the final-status check ahead of the callback
FetchSucceeded_ReturnsBeforeCallback(st) ==
    /\ wstatus' = st
    /\ werr' = NoErr
    /\ lastObserved' = st
    /\ IF isFinalStatus(st.Status)
       THEN /\ wpc' = "done" /\ wret' = [resp |-> st, err |-> NoErr]
            /\ UNCHANGED <<onUpdateCalls, onUpdateArg>>
       ELSE /\ wpc' = "selectOk" /\ wret' = wret
            /\ onUpdateCalls' = IF hasOnStatusUpdate THEN onUpdateCalls + 1 ELSE onUpdateCalls
            /\ onUpdateArg' = IF hasOnStatusUpdate THEN st ELSE onUpdateArg
    /\ UNCHANGED <<onErrorCalls, onErrorArg>>

\* lines 369-385 up to the select: the fetch returned a status
FetchSucceeded(st) ==
    /\ wstatus' = st
    /\ werr' = NoErr
    /\ lastObserved' = st
    /\ onUpdateCalls' = IF hasOnStatusUpdate THEN onUpdateCalls + 1 ELSE onUpdateCalls
    /\ onUpdateArg' = IF hasOnStatusUpdate THEN st ELSE onUpdateArg
    /\ IF isFinalStatus(st.Status)
       THEN wpc' = "done" /\ wret' = [resp |-> st, err |-> NoErr]
       ELSE wpc' = "selectOk" /\ wret' = wret
    /\ UNCHANGED <<onErrorCalls, onErrorArg>>

\* GetStatusWithContext returns (line 351) and the iteration runs to its select
FetchReturns ==
    /\ UNCHANGED <<clientVars, sendVars, optVars, getVars, setVars, pureVars, heapVars>>
    /\ wpc = "fetching"
    /\ LET rq == GetStatusRequest(authMethod, accessKey,
                                  StatusURL(endpoint, MessageID, apiVersion), clock)
           results == IF rq.err # NoErr
                      THEN {[resp |-> Nil, err |-> rq.err]}
                      ELSE {GetStatusResult(o, wobj) :
                              o \in Outcomes(wctxErr, PollStatusCodes, StatusBodies)}
       IN  \E r \in results :
              IF r.err # NoErr THEN FetchFailed(r.err) ELSE FetchSucceeded(r.resp)
    /\ wInFlight' = wInFlight - 1
    /\ UNCHANGED <<wctxErr, untilDeadline, untilTick, tickReady, wobj, fetchAfterFinal>>

\* SelectCtxDone with the select after a failed fetch waiting for the ticker only
SelectCtxDone_NotAfterError ==
    /\ UNCHANGED <<clientVars, sendVars, optVars, getVars, setVars, pureVars, heapVars>>
    /\ wpc = "selectOk"
    /\ wctxErr # NoErr
    /\ wpc' = "done"
    /\ wret' = [resp |-> wstatus, err |-> wctxErr]
    /\ UNCHANGED <<wctxErr, untilDeadline, untilTick, tickReady, wstatus, werr,
                   wobj, lastObserved, onErrorCalls, onErrorArg, onUpdateCalls,
                   onUpdateArg, fetchAfterFinal,
                   wInFlight>>

\* SelectCtxDone returning what it has without the error of the context
SelectCtxDone_SwallowsTimeout ==
    /\ UNCHANGED <<clientVars, sendVars, optVars, getVars, setVars, pureVars, heapVars>>
    /\ wpc \in {"selectErr", "selectOk"}
    /\ wctxErr # NoErr
    /\ wpc' = "done"
    /\ wret' = [resp |-> IF wpc = "selectErr" THEN Nil ELSE wstatus, err |-> NoErr]
    /\ UNCHANGED <<wctxErr, untilDeadline, untilTick, tickReady, wstatus, werr,
                   wobj, lastObserved, onErrorCalls, onErrorArg, onUpdateCalls,
                   onUpdateArg, fetchAfterFinal,
                   wInFlight>>

\* lines 361-363 and 385-390: case <-ctx.Done()
SelectCtxDone ==
    /\ UNCHANGED <<clientVars, sendVars, optVars, getVars, setVars, pureVars, heapVars>>
    /\ wpc \in {"selectErr", "selectOk"}
    /\ wctxErr # NoErr
    /\ wpc' = "done"
    /\ wret' = [resp |-> IF wpc = "selectErr" THEN Nil ELSE wstatus, err |-> wctxErr]
    /\ UNCHANGED <<wctxErr, untilDeadline, untilTick, tickReady, wstatus, werr,
                   wobj, lastObserved, onErrorCalls, onErrorArg, onUpdateCalls,
                   onUpdateArg, fetchAfterFinal,
                   wInFlight>>

\* SelectTick polling on every tick, whether the last fetch returned or not
SelectTick_WhileFetching ==
    /\ UNCHANGED <<clientVars, sendVars, optVars, getVars, setVars, pureVars, heapVars>>
    /\ wpc \in {"fetching", "selectErr", "selectOk"}
    /\ tickReady
    /\ tickReady' = FALSE
    /\ IssueFetch
    /\ UNCHANGED <<wctxErr, untilDeadline, untilTick, wret, lastObserved>>

\* lines 364-365 and 391-392: case <-ticker.C, and the next iteration
SelectTick ==
    /\ UNCHANGED <<clientVars, sendVars, optVars, getVars, setVars, pureVars, heapVars>>
    /\ wpc \in {"selectErr", "selectOk"}
    /\ tickReady
    /\ tickReady' = FALSE
    /\ IssueFetch
    /\ UNCHANGED <<wctxErr, untilDeadline, untilTick, wret, lastObserved>>

\* one unit of time passes: the deadline timer and the ticker advance
WaitTime ==
    /\ UNCHANGED <<clientVars, sendVars, optVars, getVars, setVars, pureVars, heapVars>>
    /\ wpc \in {"fetching", "selectErr", "selectOk"}
    /\ untilDeadline' = IF untilDeadline > 0 THEN untilDeadline - 1 ELSE 0
    /\ wctxErr' = IF wctxErr = NoErr /\ untilDeadline = 1
                  THEN CtxDeadlineExceeded ELSE wctxErr
    /\ untilTick' = IF untilTick = 1 THEN pollInterval ELSE untilTick - 1
    /\ tickReady' = (tickReady \/ untilTick = 1)
    /\ UNCHANGED <<wpc, wstatus, werr, wret, wobj, lastObserved, onErrorCalls,
                   onErrorArg, onUpdateCalls, onUpdateArg, fetchAfterFinal,
                   wInFlight>>

\* the caller cancels the context passed to WaitForCompletionWithContext
WaitCancel ==
    /\ UNCHANGED <<clientVars, sendVars, optVars, getVars, setVars, pureVars, heapVars>>
    /\ wpc \notin {"done", "panicked"}
    /\ wctxErr = NoErr
    /\ wctxErr' = CtxCanceled
    /\ UNCHANGED <<wpc, untilDeadline, untilTick, tickReady, wstatus, werr, wret,
                   wobj, lastObserved, onErrorCalls, onErrorArg, onUpdateCalls,
                   onUpdateArg, fetchAfterFinal,
                   wInFlight>>

\* a client and the WaitOptions of one WaitForCompletion call
WaitInit ==
    /\ endpoint \in {TrimSuffixSlash(e) : e \in Endpoints}
    /\ accessKey = <<"Q","U","J","D">>
    /\ authMethod = AuthMethodHMAC
    /\ maxRetries = 0
    /\ retryDelay = 0
    /\ apiVersion = APIVersion
    /\ httpTimeout = HTTPTimeout
    /\ debug = FALSE
    /\ logger = StdoutLogger
    /\ optLogger = StdoutLogger
    /\ SendIdle
    /\ GetIdle /\ SettersIdle /\ PureIdle /\ HeapIdle
    /\ op = "WaitForCompletion"
    /\ pollInterval \in 0..MaxPollInterval
    /\ maxWaitTime \in 0..MaxWaitBound
    /\ hasOnError \in BOOLEAN
    /\ hasOnStatusUpdate \in BOOLEAN
    /\ WaitIdle

WaitNext ==
    \/ WaitStart
    \/ FetchReturns
    \/ SelectCtxDone
    \/ SelectTick
    \/ WaitTime
    \/ WaitCancel

WaitSpec == WaitInit /\ [][WaitNext]_vars

\* the call is made, the transport answers or fails every request, time
\* passes, and a select whose ctx.Done() case is ready again and again takes
\* it at some point (Go's select picks among its ready cases at random)
WaitFairSpec ==
    /\ WaitInit /\ [][WaitNext]_vars
    /\ WF_vars(WaitStart)
    /\ WF_vars(FetchReturns)
    /\ WF_vars(WaitTime)
    /\ SF_vars(SelectCtxDone)
    /\ SF_vars(SelectTick)

(***************************************************************************)
(* Client.GetStatusWithContext called on its own.                          *)
(*   gpc: idle -> inflight -> done                                         *)
(* Ghost state: gAttempts counts the requests handed to httpClient.Do and  *)
(* gOutcome is what the transport returned.                                *)
(***************************************************************************)
\* lines 258-282: build the URL and the request, authenticate, call Do
GetStart ==
    /\ UNCHANGED <<clientVars, sendVars, optVars, waitVars, setVars, pureVars, heapVars>>
    /\ gpc = "idle"
    /\ LET rq == GetStatusRequest(authMethod, accessKey,
                                  StatusURL(endpoint, MessageID, apiVersion), clock)
       IN  IF rq.err # NoErr
           THEN /\ gpc' = "done"
                /\ gret' = [resp |-> Nil, err |-> rq.err]
                /\ UNCHANGED <<grequest, gAttempts>>
           ELSE /\ gpc' = "inflight"
                /\ grequest' = rq.req
                /\ gAttempts' = gAttempts + 1
                /\ gret' = gret
    /\ UNCHANGED <<gctxDone, gOutcome>>

\* GetReturns sending the request again when it failed for the first time
GetReturns_RetriesOnce ==
    /\ UNCHANGED <<clientVars, sendVars, optVars, waitVars, setVars, pureVars, heapVars>>
    /\ gpc = "inflight"
    /\ \E o \in Outcomes(IF gctxDone THEN CtxCanceled ELSE NoErr, StatusCodes, StatusBodies) :
          LET r == GetStatusResult(o, 0) IN
          /\ gOutcome' = o
          /\ IF r.err # NoErr /\ gAttempts < 2
             THEN gpc' = "inflight" /\ gAttempts' = gAttempts + 1 /\ gret' = gret
             ELSE gpc' = "done" /\ gAttempts' = gAttempts /\ gret' = r
    /\ UNCHANGED <<gctxDone, grequest>>

\* lines 282-317: httpClient.Do returns and the call runs to its return
GetReturns ==
    /\ UNCHANGED <<clientVars, sendVars, optVars, waitVars, setVars, pureVars, heapVars>>
    /\ gpc = "inflight"
    /\ \E o \in Outcomes(IF gctxDone THEN CtxCanceled ELSE NoErr, StatusCodes, StatusBodies) :
          LET r == GetStatusResult(o, 0) IN
          /\ gOutcome' = o
          /\ gpc' = "done" /\ gAttempts' = gAttempts /\ gret' = r
    /\ UNCHANGED <<gctxDone, grequest>>

\* the caller cancels the context passed to GetStatusWithContext
GetCancel ==
    /\ UNCHANGED <<clientVars, sendVars, optVars, waitVars, setVars, pureVars, heapVars>>
    /\ gpc # "done"
    /\ ~gctxDone
    /\ gctxDone' = TRUE
    /\ UNCHANGED <<gpc, grequest, gret, gAttempts, gOutcome>>

\* a client on which GetStatus is called
GetInit ==
    /\ endpoint \in {TrimSuffixSlash(e) : e \in Endpoints}
    /\ accessKey \in AccessKeys
    /\ authMethod \in AuthMethods
    /\ maxRetries = 0
    /\ retryDelay = 0
    /\ apiVersion = APIVersion
    /\ httpTimeout = HTTPTimeout
    /\ debug = FALSE
    /\ logger = StdoutLogger
    /\ optLogger = StdoutLogger
    /\ SendIdle /\ WaitIdle /\ WaitOptionsUnused
    /\ GetIdle /\ SettersIdle /\ PureIdle /\ HeapIdle
    /\ op = "GetStatus"

GetNext ==
    \/ GetStart
    \/ GetReturns
    \/ GetCancel

GetSpec == GetInit /\ [][GetNext]_vars

(***************************************************************************)
(* Client.SetDebug and Client.SetLogger, each called from a goroutine of   *)
(* its own, next to one call of Send, GetStatus or WaitForCompletion.      *)
(*   sdpc, slpc: idle -> called -> idle                                    *)
(* The three calls write no field of the client and share no state with    *)
(* each other, so a run makes one of them (op).                            *)
(***************************************************************************)
\* go c.SetDebug(enabled)
SetDebugCall ==
    /\ UNCHANGED <<clientVars, sendVars, optVars, waitVars, getVars, pureVars, heapVars>>
    /\ sdpc = "idle"
    /\ sdpc' = "called"
    /\ sdArg' \in BOOLEAN
    /\ UNCHANGED <<slpc, slArg, op>>

\* the body of SetDebug: c.options.Debug = enabled
SetDebug ==
    /\ UNCHANGED <<sendVars, optVars, waitVars, getVars, pureVars, heapVars>>
    /\ sdpc = "called"
    /\ debug' = sdArg
    /\ sdpc' = "idle"
    /\ sdArg' = FALSE
    /\ UNCHANGED <<endpoint, accessKey, authMethod, maxRetries, retryDelay,
                   apiVersion, httpTimeout, logger, optLogger>>
    /\ UNCHANGED <<slpc, slArg, op>>

\* go c.SetLogger(logger)
SetLoggerCall ==
    /\ UNCHANGED <<clientVars, sendVars, optVars, waitVars, getVars, pureVars, heapVars>>
    /\ slpc = "idle"
    /\ slpc' = "called"
    /\ slArg' \in Loggers
    /\ UNCHANGED <<sdpc, sdArg, op>>

\* SetLogger putting the logger into a fresh ClientOptions value
SetLogger_ReplacesOptions ==
    /\ UNCHANGED <<sendVars, optVars, waitVars, getVars, pureVars, heapVars>>
    /\ slpc = "called"
    /\ logger' = slArg
    /\ optLogger' = slArg
    /\ maxRetries' = 0 /\ retryDelay' = 0 /\ debug' = FALSE
    /\ slpc' = "idle"
    /\ slArg' = StdoutLogger
    /\ UNCHANGED <<endpoint, accessKey, authMethod, apiVersion, httpTimeout>>
    /\ UNCHANGED <<sdpc, sdArg, op>>

\* the body of SetLogger: c.logger = logger; c.options.Logger = logger
SetLogger ==
    /\ UNCHANGED <<sendVars, optVars, waitVars, getVars, pureVars, heapVars>>
    /\ slpc = "called"
    /\ logger' = slArg
    /\ optLogger' = slArg
    /\ slpc' = "idle"
    /\ slArg' = StdoutLogger
    /\ UNCHANGED <<endpoint, accessKey, authMethod, maxRetries, retryDelay,
                   apiVersion, httpTimeout, debug>>
    /\ UNCHANGED <<sdpc, sdArg, op>>

\* the calls a run can make besides SetDebug and SetLogger
Operations == {"Send", "GetStatus", "WaitForCompletion"}

\* a client built by any of the three constructors, and the call made on it
ApiInit ==
    /\ endpoint = TrimSuffixSlash(<<"https://", "acs", "/">>)
    /\ accessKey = <<"Q","U","J","D">>
    /\ authMethod \in AuthMethods
    /\ maxRetries = 1
    /\ retryDelay = 1
    /\ apiVersion = APIVersion
    /\ httpTimeout = HTTPTimeout
    /\ debug \in BOOLEAN
    /\ logger = StdoutLogger
    /\ optLogger = StdoutLogger
    /\ SendIdle /\ WaitIdle /\ WaitOptionsUnused
    /\ GetIdle /\ SettersIdle /\ PureIdle /\ HeapIdle
    /\ op \in Operations

SendCall == op = "Send" /\ SendNext
GetStatusCall == op = "GetStatus" /\ GetNext
WaitForCompletionCall == op = "WaitForCompletion" /\ WaitNext

ApiNext ==
    \/ SendCall
    \/ GetStatusCall
    \/ WaitForCompletionCall
    \/ SetDebugCall
    \/ SetDebug
    \/ SetLoggerCall
    \/ SetLogger

ApiSpec == ApiInit /\ [][ApiNext]_vars

(***************************************************************************)
(* The accesses to the fields of the client that the next step of each     *)
(* goroutine makes.  type Client holds no mutex and no method takes a      *)
(* lock, so no two accesses of different goroutines are ordered.           *)
(***************************************************************************)
Read(l) == [loc |-> l, write |-> FALSE]
Write(l) == [loc |-> l, write |-> TRUE]

\* if c.options.Debug { c.logger.Printf(...) }
DebugLog == {Read("options.Debug")} \cup (IF debug THEN {Read("logger")} ELSE {})

\* lines 143-147 and 192 ahead of an attempt, lines 215, 228 and 172 after it
SendAccesses ==
    IF spc \in {"loop", "inflight"} \/ (spc = "retryWait" /\ woke = "timer")
    THEN DebugLog \cup {Read("options.MaxRetries"), Read("options.RetryDelay")}
    ELSE {}

\* lines 290, 300 and 313
GetStatusAccesses == IF gpc = "inflight" THEN DebugLog ELSE {}

\* lines 347-388, and GetStatusWithContext inside the loop
WaitAccesses ==
    IF wpc \in {"fetching", "selectErr", "selectOk"} THEN DebugLog ELSE {}

\* c.options.Debug = enabled; if enabled { c.logger.Printf(...) }
SetDebugAccesses ==
    IF sdpc = "called"
    THEN {Write("options.Debug")} \cup (IF sdArg THEN {Read("logger")} ELSE {})
    ELSE {}

\* c.logger = logger; c.options.Logger = logger; if c.options.Debug { ... }
SetLoggerAccesses ==
    IF slpc = "called"
    THEN {Write("logger"), Write("options.Logger"), Read("options.Debug")}
    ELSE {}

Goroutines == Operations \cup {"SetDebug", "SetLogger"}

AccessesOf(g) ==
    CASE g = "Send" -> SendAccesses
      [] g = "GetStatus" -> GetStatusAccesses
      [] g = "WaitForCompletion" -> WaitAccesses
      [] g = "SetDebug" -> SetDebugAccesses
      [] g = "SetLogger" -> SetLoggerAccesses

\* two goroutines are about to access one field, one of them writing it
DataRace ==
    \E g1 \in Goroutines, g2 \in Goroutines :
       /\ g1 # g2
       /\ \E a \in AccessesOf(g1), b \in AccessesOf(g2) :
             a.loc = b.loc /\ (a.write \/ b.write)

(***************************************************************************)
(* parseConnectionString and NewClientFromConnectionString.  A string is   *)
(* a sequence of tokens; ";" and the two prefixes are tokens.              *)
(***************************************************************************)
\* strings.Split(str, sep): the pieces of str between the occurrences of sep
RECURSIVE Split(_, _)
Split(str, sep) ==
    IF \A i \in 1..Len(str) : str[i] # sep
    THEN <<str>>
    ELSE LET i == CHOOSE j \in 1..Len(str) :
                     str[j] = sep /\ \A k \in 1..(j - 1) : str[k] # sep
         IN  <<SubSeq(str, 1, i - 1)>> \o Split(SubSeq(str, i + 1, Len(str)), sep)

\* strings.HasPrefix(str, prefix), for a prefix that is one token
HasPrefix(str, prefix) == Len(str) >= 1 /\ str[1] = prefix

\* strings.TrimPrefix(str, prefix)
TrimPrefix(str, prefix) == IF HasPrefix(str, prefix) THEN Tail(str) ELSE str

\* &ParsedConnectionString{}
EmptyParsed == [Endpoint |-> EmptyString, AccessKey |-> EmptyString]

\* the loop over the parts: a later field overwrites an earlier one
RECURSIVE ParseParts(_, _)
ParseParts(parts, parsed) ==
    IF parts = <<>> THEN parsed
    ELSE LET part == Head(parts) IN
         ParseParts(Tail(parts),
             IF HasPrefix(part, "endpoint=")
             THEN [parsed EXCEPT !.Endpoint = TrimPrefix(part, "endpoint=")]
             ELSE IF HasPrefix(part, "accesskey=")
                  THEN [parsed EXCEPT !.AccessKey = TrimPrefix(part, "accesskey=")]
                  ELSE parsed)

\* parseConnectionString without the check of the access key
parseConnectionString_NoKeyCheck(connectionString) ==
    LET parsed == ParseParts(Split(connectionString, ";"), EmptyParsed) IN
    IF parsed.Endpoint = EmptyString
    THEN [parsed |-> Nil,
          err |-> Errorf("endpoint not found in connection string", 0, "", NoErr)]
    ELSE [parsed |-> parsed, err |-> NoErr]

parseConnectionString(connectionString) ==
    LET parsed == ParseParts(Split(connectionString, ";"), EmptyParsed) IN
    IF parsed.Endpoint = EmptyString
    THEN [parsed |-> Nil,
          err |-> Errorf("endpoint not found in connection string", 0, "", NoErr)]
    ELSE IF parsed.AccessKey = EmptyString
         THEN [parsed |-> Nil,
               err |-> Errorf("access key not found in connection string", 0, "", NoErr)]
         ELSE [parsed |-> parsed, err |-> NoErr]

\* the client NewClient builds, with the auth method of the constructor
NewClient(ep, key, authM) ==
    [endpoint |-> TrimSuffixSlash(ep), accessKey |-> key, authMethod |-> authM]

\* NewClientFromConnectionString filling the client with the parsed fields
\* itself, the endpoint as it stands in the connection string
NewClientFromConnectionString_KeepsSlash(connectionString) ==
    LET p == parseConnectionString(connectionString) IN
    IF p.err # NoErr
    THEN [client |-> Nil, parsed |-> Nil,
          err |-> Errorf("failed to parse connection string: %w", 0, "", p.err)]
    ELSE [client |-> [endpoint |-> p.parsed.Endpoint, accessKey |-> p.parsed.AccessKey,
                      authMethod |-> AuthMethodConnectionString],
          parsed |-> p.parsed, err |-> NoErr]

\* the (client, error) pair of NewClientFromConnectionString, and what
\* parseConnectionString returned to it
NewClientFromConnectionString(connectionString) ==
    LET p == parseConnectionString(connectionString) IN
    IF p.err # NoErr
    THEN [client |-> Nil, parsed |-> Nil,
          err |-> Errorf("failed to parse connection string: %w", 0, "", p.err)]
    ELSE [client |-> NewClient(p.parsed.Endpoint, p.parsed.AccessKey,
                               AuthMethodConnectionString),
          parsed |-> p.parsed, err |-> NoErr]

\* the parts connection strings are made of: fields with and without a
\* value, a field name in the wrong case, an empty part
ConnectionStringParts ==
    {<<"endpoint=", "https://acs">>, <<"endpoint=", "https://other", "/">>,
     <<"endpoint=">>, <<"accesskey=", "QUJD">>, <<"accesskey=">>,
     <<"Endpoint=", "https://acs">>, <<>>}

\* strings.Join(parts, ";")
RECURSIVE Join(_)
Join(parts) ==
    IF Len(parts) = 1 THEN parts[1]
    ELSE parts[1] \o <<";">> \o Join(Tail(parts))

ConnectionStrings ==
    {Join(ps) : ps \in UNION {[1..n -> ConnectionStringParts] : n \in 1..MaxParts}}

\* some client, left alone by the calls of the functions below
SomeClient ==
    /\ endpoint = <<"https://", "acs">>
    /\ accessKey = <<"Q","U","J","D">>
    /\ authMethod = AuthMethodHMAC
    /\ maxRetries = 0
    /\ retryDelay = 0
    /\ apiVersion = APIVersion
    /\ httpTimeout = HTTPTimeout
    /\ debug = FALSE
    /\ logger = StdoutLogger
    /\ optLogger = StdoutLogger
    /\ SendIdle /\ WaitIdle /\ WaitOptionsUnused /\ GetIdle /\ SettersIdle
    /\ op = "none"

\* NewClientFromConnectionString is about to be called on a connection string
ConnStrInit ==
    /\ SomeClient /\ HeapIdle
    /\ ppc = "NewClientFromConnectionString"
    /\ pin \in ConnectionStrings
    /\ pout = <<>>

\* the call returns
ConnStrReturns ==
    /\ UNCHANGED <<clientVars, sendVars, optVars, waitVars, getVars, setVars, heapVars>>
    /\ ppc = "NewClientFromConnectionString"
    /\ pout' = NewClientFromConnectionString(pin)
    /\ ppc' = "returned"
    /\ pin' = pin

ConnStrNext == ConnStrReturns

ConnStrSpec == ConnStrInit /\ [][ConnStrNext]_vars

(***************************************************************************)
(* Two clients for one endpoint and one access key: NewClient(E, K) and    *)
(* NewClientFromConnectionString("endpoint=E;accesskey=K"), and the        *)
(* request each of them hands to the transport for the same call at the    *)
(* same time.  pin is <<E, K>> and then the call; pout the two clients and *)
(* then the two requests.                                                  *)
(*   ppc: NewClient -> constructed -> requested                            *)
(***************************************************************************)
\* endpoints with and without trailing slashes, with a path, with a host
\* url.Parse rejects
PairEndpoints ==
    Endpoints \cup {<<"https://", "acs.test", "/", "/">>,
                    <<"http://", "acs.test", "/api", "/">>}

\* access keys that decode, with and without padding, and one that does not
PairAccessKeys ==
    AccessKeys \cup {<<"Q","U","I","=">>, <<"Q","Q","=","=">>}

\* "endpoint=" + E + ";accesskey=" + K
ConnectionStringOf(ep, key) == <<"endpoint=">> \o ep \o <<";", "accesskey=">> \o key

\* the calls a client turns into a request
PairCalls ==
    {[call |-> "Send", body |-> Marshal(Message), now |-> t] : t \in 0..MaxClock}
      \cup {[call |-> "GetStatus", body |-> EmptyString, now |-> t] : t \in 0..MaxClock}

\* the request client c builds for call k: sendSingleAttempt up to
\* httpClient.Do, or GetStatusWithContext up to httpClient.Do
RequestOf(c, k) ==
    IF k.call = "Send"
    THEN AttemptRequest(c.authMethod, c.accessKey, SendURL(c.endpoint, APIVersion),
                        k.body, k.now)
    ELSE GetStatusRequest(c.authMethod, c.accessKey,
                          StatusURL(c.endpoint, MessageID, APIVersion), k.now)

PairInit ==
    /\ SomeClient /\ HeapIdle
    /\ ppc = "NewClient"
    /\ pin \in {[E |-> ep, K |-> key] : ep \in PairEndpoints, key \in PairAccessKeys}
    /\ pout = <<>>

\* both constructors return
PairConstruct ==
    /\ UNCHANGED <<clientVars, sendVars, optVars, waitVars, getVars, setVars, heapVars>>
    /\ ppc = "NewClient"
    /\ pout' = [direct |-> NewClient(pin.E, pin.K, AuthMethodHMAC),
                conn |-> NewClientFromConnectionString(ConnectionStringOf(pin.E, pin.K))]
    /\ ppc' = "constructed"
    /\ pin' = pin

\* the same call is made on both clients at the same time
PairRequest ==
    /\ UNCHANGED <<clientVars, sendVars, optVars, waitVars, getVars, setVars, heapVars>>
    /\ ppc = "constructed"
    /\ pout.conn.err = NoErr
    /\ \E k \in PairCalls :
          /\ pin' = [E |-> pin.E, K |-> pin.K, call |-> k]
          /\ pout' = [direct |-> RequestOf(pout.direct, k),
                      conn |-> RequestOf(pout.conn.client, k)]
    /\ ppc' = "requested"

PairNext ==
    \/ PairConstruct
    \/ PairRequest

PairSpec == PairInit /\ [][PairNext]_vars

(***************************************************************************)
(* Clients and the ClientOptions objects they are built on.  The           *)
(* constructors take a *ClientOptions and keep the pointer, so a client    *)
(* holds the address of the caller's object; optionsHeap maps an address   *)
(* to the fields of the object there.  Of a client the address of its      *)
(* options and its logger field are kept.  lastCall is the call made last, *)
(* the client it was made on and the address of that client's options.     *)
(***************************************************************************)
\* the addresses of the caller's ClientOptions objects, and the clients
OptionAddrs == {1, 2}
ClientIds == {1, 2}

\* &noOpLogger{}
NoOpLogger == "noop"

\* the values of a ClientOptions object as the caller fills it in: the
\* fields the constructors and the setters touch
ClientOptionsValues ==
    [APIVersion : {"", APIVersion}, Logger : {"nil", "custom"}, Debug : BOOLEAN]

SharedInit ==
    /\ SomeClient /\ PureIdle
    /\ optionsHeap \in [OptionAddrs -> ClientOptionsValues]
    /\ clients = [i \in ClientIds |-> NoClient]
    /\ lastCall = [call |-> "none"]

\* NewClient(endpoint, accessKey, options) with options the address a
SharedNewClient ==
    /\ UNCHANGED <<clientVars, sendVars, optVars, waitVars, getVars, setVars, pureVars>>
    /\ \E i \in ClientIds, a \in OptionAddrs :
          LET o == optionsHeap[a]
              filled == [o EXCEPT !.APIVersion = IF @ = "" THEN APIVersion ELSE @,
                                  !.Logger = IF @ = "nil" THEN NoOpLogger ELSE @]
          IN  /\ ~clients[i].built
              /\ optionsHeap' = [optionsHeap EXCEPT ![a] = filled]
              /\ clients' = [clients EXCEPT ![i] = [built |-> TRUE, options |-> a,
                                                    logger |-> filled.Logger]]
              /\ lastCall' = [call |-> "NewClient", client |-> i, addr |-> a]

\* c.SetDebug(enabled) on a client: c.options.Debug = enabled
SharedSetDebug ==
    /\ UNCHANGED <<clientVars, sendVars, optVars, waitVars, getVars, setVars, pureVars>>
    /\ \E i \in ClientIds, enabled \in BOOLEAN :
          /\ clients[i].built
          /\ optionsHeap' = [optionsHeap EXCEPT ![clients[i].options].Debug = enabled]
          /\ clients' = clients
          /\ lastCall' = [call |-> "SetDebug", client |-> i, addr |-> clients[i].options]

\* c.SetLogger(l) on a client: c.logger = l; c.options.Logger = l
SharedSetLogger ==
    /\ UNCHANGED <<clientVars, sendVars, optVars, waitVars, getVars, setVars, pureVars>>
    /\ \E i \in ClientIds, l \in Loggers :
          /\ clients[i].built
          /\ optionsHeap' = [optionsHeap EXCEPT ![clients[i].options].Logger = l]
          /\ clients' = [clients EXCEPT ![i].logger = l]
          /\ lastCall' = [call |-> "SetLogger", client |-> i, addr |-> clients[i].options]

SharedNext ==
    \/ SharedNewClient
    \/ SharedSetDebug
    \/ SharedSetLogger

SharedSpec == SharedInit /\ [][SharedNext]_vars

(***************************************************************************)
(* The message builder: client.NewMessage(), the setters From, To, Cc,     *)
(* Bcc, Subject, PlainText and HTML, and Build.  pin is the builder.       *)
(***************************************************************************)
\* client.NewMessage()
NewMessage ==
    [sender |-> "", to |-> <<>>, cc |-> <<>>, bcc |-> <<>>,
     subject |-> "", plainText |-> "", html |-> ""]

Addresses == {"b@x.com"}
Senders == {"", "a@x.com"}
Subjects == {"", "Hi"}
Bodies == {"", "body"}

\* the invariants a builder violates, in the order Build checks them
Violations(b) ==
    (IF b.sender = "" THEN <<"sender">> ELSE <<>>)
      \o (IF Len(b.to) + Len(b.cc) + Len(b.bcc) = 0 THEN <<"recipient">> ELSE <<>>)
      \o (IF b.subject = "" THEN <<"subject">> ELSE <<>>)
      \o (IF b.plainText = "" /\ b.html = "" THEN <<"content">> ELSE <<>>)

\* the error of Build: one error that lists every violation
ValidationError(violations) == Errorf("validation failed", Len(violations), violations, NoErr)

\* Build counting the to recipients only
Build_ToRecipientsOnly(b) ==
    LET violations ==
          (IF b.sender = "" THEN <<"sender">> ELSE <<>>)
            \o (IF Len(b.to) = 0 THEN <<"recipient">> ELSE <<>>)
            \o (IF b.subject = "" THEN <<"subject">> ELSE <<>>)
            \o (IF b.plainText = "" /\ b.html = "" THEN <<"content">> ELSE <<>>)
    IN  IF violations # <<>>
        THEN [message |-> Nil, err |-> ValidationError(violations)]
        ELSE [message |-> b, err |-> NoErr]

\* builder.Build(): the message, or the validation error
Build(b) ==
    IF Violations(b) # <<>>
    THEN [message |-> Nil, err |-> ValidationError(Violations(b))]
    ELSE [message |-> b, err |-> NoErr]

BuilderInit ==
    /\ SomeClient /\ HeapIdle
    /\ ppc = "building"
    /\ pin = NewMessage
    /\ pout = <<>>

\* a setter call changes the builder and nothing else
BuilderStep(b) ==
    /\ UNCHANGED <<clientVars, sendVars, optVars, waitVars, getVars, setVars, heapVars>>
    /\ ppc = "building"
    /\ pin' = b
    /\ UNCHANGED <<ppc, pout>>

From == \E a \in Senders : BuilderStep([pin EXCEPT !.sender = a])
To ==
    /\ Len(pin.to) < MaxRecipients
    /\ \E a \in Addresses : BuilderStep([pin EXCEPT !.to = Append(@, a)])
Cc ==
    /\ Len(pin.cc) < MaxRecipients
    /\ \E a \in Addresses : BuilderStep([pin EXCEPT !.cc = Append(@, a)])
Bcc ==
    /\ Len(pin.bcc) < MaxRecipients
    /\ \E a \in Addresses : BuilderStep([pin EXCEPT !.bcc = Append(@, a)])
Subject == \E t \in Subjects : BuilderStep([pin EXCEPT !.subject = t])
PlainText == \E t \in Bodies : BuilderStep([pin EXCEPT !.plainText = t])
HTML == \E t \in Bodies : BuilderStep([pin EXCEPT !.html = t])

\* builder.Build() is called
BuildReturns ==
    /\ UNCHANGED <<clientVars, sendVars, optVars, waitVars, getVars, setVars, heapVars>>
    /\ ppc = "building"
    /\ pout' = Build(pin)
    /\ ppc' = "built"
    /\ pin' = pin

BuilderNext ==
    \/ From
    \/ To
    \/ Cc
    \/ Bcc
    \/ Subject
    \/ PlainText
    \/ HTML
    \/ BuildReturns

BuilderSpec == BuilderInit /\ [][BuilderNext]_vars

(***************************************************************************)
(* The configuration of the command-line tool: simplecli parses the        *)
(* arguments into the flags map, simpleconfig.LoadConfig merges defaults,  *)
(* config file, environment and flags.  Three settings stand for the       *)
(* rest: from (a string flag of the command with an environment variable), *)
(* wait (a bool flag of the command with an environment variable) and      *)
(* debug (a global bool flag).  A source is a record over the settings;    *)
(* a setting a source does not give is Absent.                             *)
(***************************************************************************)
Absent == [absent |-> TRUE]
Val(v) == [val |-> v]

\* the config files: JSON objects with any of "from", "wait", "debug"
ConfigFiles ==
    [from : {Absent, Val("file@x.com")},
     wait : {Absent, Val(TRUE), Val(FALSE)},
     debug : {Absent, Val(TRUE), Val(FALSE)}]

\* AZURE_EMAIL_FROM, AZURE_EMAIL_WAIT, AZURE_EMAIL_DEBUG; os.Getenv gives ""
\* for a variable that is not set
Environments ==
    [from : {"", "env@x.com"}, wait : {"", "true", "false"}, debug : {"", "true", "yes"}]

\* the command line: --from ADDR, --wait or --wait=false, --debug
CommandLines ==
    [from : {Absent, Val("flag@x.com")},
     wait : {Absent, Val(""), Val("false")},
     debug : {Absent, Val("")}]

\* setFlagValue for a flag whose Value is a bool
setBoolFlagValue(name, value) ==
    IF value \in {"true", "1", ""} THEN [flag |-> Val(TRUE), err |-> NoErr]
    ELSE IF value \in {"false", "0"} THEN [flag |-> Val(FALSE), err |-> NoErr]
    ELSE [flag |-> Absent,
          err |-> Errorf("invalid boolean value for --%s: %s", 0, <<name, value>>, NoErr)]

\* parseGlobalFlags: the default of every global flag, then the arguments
parseGlobalFlags(args) ==
    [debug |-> IF args.debug = Absent THEN Val(FALSE)
               ELSE setBoolFlagValue("debug", args.debug.val).flag]

\* parseCommand: the global flags, then for every flag of the command its
\* default, its environment variable and the arguments
parseCommand(globalFlags, env, args) ==
    LET waitEnv == IF env.wait # "" THEN setBoolFlagValue("wait", env.wait)
                   ELSE [flag |-> Val(FALSE), err |-> NoErr]
        waitArg == IF args.wait = Absent THEN waitEnv
                   ELSE setBoolFlagValue("wait", args.wait.val)
        fromEnv == IF env.from # "" THEN Val(env.from) ELSE Val("")
        fromArg == IF args.from = Absent THEN fromEnv ELSE args.from
    IN  IF waitEnv.err # NoErr
        THEN [flags |-> Nil,
              err |-> Errorf("invalid environment variable %s: %w", 0,
                             "AZURE_EMAIL_WAIT", waitEnv.err)]
        ELSE IF waitArg.err # NoErr
             THEN [flags |-> Nil, err |-> waitArg.err]
             ELSE [flags |-> [from |-> fromArg, wait |-> waitArg.flag,
                              debug |-> globalFlags.debug],
                   err |-> NoErr]

\* the defaults LoadConfig starts with
DefaultConfig == [from |-> "", wait |-> FALSE, debug |-> FALSE]

\* loadFromFile: json.Unmarshal sets the fields the file has
loadFromFile(config, file) ==
    [k \in DOMAIN config |-> IF file[k] # Absent THEN file[k].val ELSE config[k]]

\* parseBool of simpleconfig
parseBool(str) == str \in {"true", "1", "yes", "on"}

\* loadFromEnv: a variable that is set and not empty overrides
loadFromEnv(config, env) ==
    [from |-> IF env.from # "" THEN env.from ELSE config.from,
     wait |-> IF env.wait # "" THEN parseBool(env.wait) ELSE config.wait,
     debug |-> IF env.debug # "" THEN parseBool(env.debug) ELSE config.debug]

\* loadFromFlags: a string flag overrides when it is in the map and not
\* empty, a bool flag whenever it is in the map
loadFromFlags(config, flags) ==
    [from |-> IF flags.from # Absent /\ flags.from # Val("")
              THEN flags.from.val ELSE config.from,
     wait |-> IF flags.wait # Absent THEN flags.wait.val ELSE config.wait,
     debug |-> IF flags.debug # Absent THEN flags.debug.val ELSE config.debug]

\* LoadConfig(configFile, cliFlags)
LoadConfig(file, env, flags) ==
    loadFromFlags(loadFromEnv(loadFromFile(DefaultConfig, file), env), flags)

\* the configuration a run of the send command works with
RunCommand(file, env, args) ==
    LET parsed == parseCommand(parseGlobalFlags(args), env, args) IN
    IF parsed.err # NoErr
    THEN [config |-> Nil, err |-> parsed.err]
    ELSE [config |-> LoadConfig(file, env, parsed.flags), err |-> NoErr]

\* the tool is started with a config file, an environment and arguments
ConfigInit ==
    /\ SomeClient /\ HeapIdle
    /\ ppc = "LoadConfig"
    /\ pin \in [file : ConfigFiles, env : Environments, args : CommandLines]
    /\ pout = <<>>

\* runSend has loaded its configuration
LoadConfigReturns ==
    /\ UNCHANGED <<clientVars, sendVars, optVars, waitVars, getVars, setVars, heapVars>>
    /\ ppc = "LoadConfig"
    /\ pout' = RunCommand(pin.file, pin.env, pin.args)
    /\ ppc' = "returned"
    /\ pin' = pin

ConfigNext == LoadConfigReturns

ConfigSpec == ConfigInit /\ [][ConfigNext]_vars

(***************************************************************************)
(* Properties of Client.SendWithContext.                                   *)
(***************************************************************************)
\* the transport answered with a 2xx status
Got2xx(o) == o.kind = "response" /\ o.status \in 200..299
\* the transport answered with a status outside 2xx
GotNon2xx(o) == o.kind = "response" /\ o.status \notin 200..299
\* the transport answered 2xx with a body that parses
TransportSucceeded(o) == Got2xx(o) /\ o.body.valid
\* the transport was reached and the attempt failed
TransportFailed(o) == o.kind # "none" /\ ~TransportSucceeded(o)

\* C1: with maxRetries = N >= 0, a context that is not cancelled and a
\* transport on which every attempt fails, SendWithContext ends after exactly
\* N+1 HTTP attempts with a nil result and the aggregate error, which states
\* N+1 attempts and wraps the error of the last attempt.
C1_RetryExhaustion ==
    (spc = "done" /\ maxRetries >= 0 /\ ~sctxDone /\ TransportFailed(lastOutcome))
    => /\ httpAttempts = maxRetries + 1
       /\ sret.resp = Nil
       /\ sret.err.fmt = "failed to send email after %d attempts: %w"
       /\ sret.err.n = maxRetries + 1
       /\ Unwrap(sret.err) = lastErr
       /\ lastErr = AttemptResult(lastOutcome).err

C1_Witness ==
    /\ spc = "done" /\ maxRetries = 2 /\ ~sctxDone
    /\ lastOutcome = TransportError(ConnRefused)
    /\ httpAttempts = 3
    /\ sret.err.n = 3

\* C2: when the transport fails on the first k attempts and succeeds on
\* attempt k+1 (k <= maxRetries), SendWithContext has issued exactly k+1
\* attempts and returns, with a nil error, the SendResponse parsed from the
\* body of attempt k+1; the earlier errors are not reported.
C2_RetrySuccess ==
    TransportSucceeded(lastOutcome)
    => /\ spc = "done"
       /\ attempt <= maxRetries
       /\ httpAttempts = attempt + 1
       /\ sret.err = NoErr
       /\ sret.resp # Nil
       /\ sret.resp.ID = lastOutcome.body.id
       /\ sret.resp.Status = lastOutcome.body.status
       /\ sret.resp.MessageID = lastOutcome.body.id

C2_Witness ==
    /\ TransportSucceeded(lastOutcome)
    /\ attempt = 2 /\ httpAttempts = 3
    /\ lastErr # NoErr
    /\ sret.err = NoErr /\ sret.resp.ID = "msg-2"

\* C3: an attempt that receives a 2xx status ends the retry loop: the call
\* returns at once, and no HTTP attempt is issued by that send() call after
\* the 2xx response, whatever the response body was.
C3_NoAttemptAfter2xx ==
    /\ Got2xx(lastOutcome) => spc = "done"
    /\ ~after2xx

\* C4: in keyed-signature mode with an access key that does not
\* base64-decode, no HTTP request is transmitted, and send() ends at once
\* with a signing error instead of retrying.
C4_UndecodableKeyNeverTransmits ==
    (authMethod \in {AuthMethodHMAC, AuthMethodConnectionString}
        /\ ~Base64Decodes(accessKey)
        /\ URLParses(endpoint))
    => /\ httpAttempts = 0
       /\ waits = 0

\* C10: an attempt answered with a non-2xx status (4xx or 5xx) is handled
\* like any failed attempt: its error becomes the last error, and while
\* attempts remain the call waits retryDelay and issues the next attempt
\* (unless the context is cancelled during that wait); when none remain the
\* call ends with the aggregate error after maxRetries+1 attempts.
C10_Non2xxIsRetried ==
    GotNon2xx(lastOutcome)
    => /\ lastErr.fmt = "API request failed with status %d: %s"
       /\ lastErr.n = lastOutcome.status
       /\ attempt <= maxRetries
            => \/ spc = "retryWait" /\ httpAttempts = attempt
               \/ spc = "inflight" /\ httpAttempts = attempt + 1 /\ waits = attempt
               \/ spc = "done" /\ sctxDone /\ sret = [resp |-> Nil, err |-> CtxCanceled]
       /\ attempt > maxRetries
            => /\ spc = "done"
               /\ attempt = maxRetries + 1
               /\ httpAttempts = maxRetries + 1
               /\ sret = [resp |-> Nil, err |-> AggregateError(maxRetries + 1, lastErr)]

C10_Witness ==
    /\ GotNon2xx(lastOutcome) /\ lastOutcome.status = 400
    /\ spc = "inflight" /\ attempt = 2 /\ waits = 2 /\ ~sctxDone

(***************************************************************************)
(* Properties of Client.WaitForCompletionWithContext.                      *)
(***************************************************************************)
\* the terminal set of the poller
TerminalStatuses == {"Delivered", "Failed", "Canceled"}
\* the call has returned
WaitReturned == wpc = "done"

\* C5: when waitForCompletion returns the timeout error and some fetch of
\* the call succeeded, the StatusResult returned with the error is the last
\* successfully observed one, also when the most recent fetch failed.
C5_TimeoutReturnsLastObserved ==
    (WaitReturned /\ wret.err = CtxDeadlineExceeded /\ lastObserved # Nil)
    => wret.resp = lastObserved

\* C6: a successfully fetched status of the terminal set ends the call at
\* once, returning that StatusResult with a nil error; no fetch is issued
\* after it; and a call that returns a nil error returns a terminal status.
C6_TerminalTransition ==
    /\ (wstatus # Nil /\ wstatus.Status \in TerminalStatuses)
          => (WaitReturned /\ wret = [resp |-> wstatus, err |-> NoErr])
    /\ ~fetchAfterFinal
    /\ (WaitReturned /\ wret.err = NoErr)
          => (wret.resp # Nil /\ wret.resp = lastObserved
                /\ wret.resp.Status \in TerminalStatuses)
    /\ (wstatus # Nil /\ wstatus.Status \notin TerminalStatuses /\ WaitReturned)
          => wret.err # NoErr

C6_Witness ==
    /\ WaitReturned /\ wret.err = NoErr
    /\ wret.resp.Status = "Canceled"
    /\ wctxErr = NoErr /\ untilDeadline = 1

\* C7: a failed status fetch invokes onError exactly once (when set) with
\* the error of that fetch and does not end the call: the call is then at
\* its select, and it returns only with a terminal status or with the error
\* of the context once the deadline passed or the caller cancelled.
C7_FetchFailureKeepsPolling ==
    /\ werr # NoErr
          => /\ onErrorCalls = (IF hasOnError THEN 1 ELSE 0)
             /\ hasOnError => onErrorArg = werr
             /\ \/ wpc = "selectErr"
                \/ WaitReturned /\ wctxErr # NoErr /\ wret = [resp |-> Nil, err |-> wctxErr]
    /\ WaitReturned
          => \/ wret.err = NoErr /\ wret.resp.Status \in TerminalStatuses
             \/ wctxErr # NoErr /\ wret.err = wctxErr
    /\ (wpc = "fetching" \/ werr = NoErr) => onErrorCalls = 0

C7_Witness ==
    /\ wpc = "selectErr" /\ hasOnError /\ onErrorCalls = 1
    /\ onErrorArg = Errorf("status request failed: %w", 0, "", ConnRefused)
    /\ lastObserved # Nil /\ wctxErr = NoErr

\* C8: a successful status fetch invokes onStatusUpdate exactly once (when
\* set) with the StatusResult that fetch returned, for a terminal status
\* before the call returns it; a failed fetch never invokes onStatusUpdate.
C8_StatusUpdateCallback ==
    /\ wstatus # Nil
          => /\ onUpdateCalls = (IF hasOnStatusUpdate THEN 1 ELSE 0)
             /\ hasOnStatusUpdate => (onUpdateArg = wstatus /\ onUpdateArg.obj = wobj)
    /\ (WaitReturned /\ wret.err = NoErr /\ hasOnStatusUpdate)
          => (onUpdateCalls = 1 /\ onUpdateArg = wret.resp)
    /\ (wstatus = Nil) => onUpdateCalls = 0

C8_Witness ==
    /\ WaitReturned /\ wret.err = NoErr /\ hasOnStatusUpdate
    /\ onUpdateCalls = 1 /\ onUpdateArg.Status = "Delivered"
    /\ wret.resp = onUpdateArg

\* C9: with a positive pollInterval, every call of waitForCompletion
\* returns, with a terminal status and a nil error or with the error of the
\* context (the deadline passed, or the caller cancelled).
C9_PollerTerminates ==
    (pollInterval > 0)
    => <>(/\ WaitReturned
          /\ \/ wret.err = NoErr /\ wret.resp.Status \in TerminalStatuses
             \/ wret.err \in {CtxDeadlineExceeded, CtxCanceled})

C9_Witness ==
    /\ WaitReturned /\ wret.err = CtxDeadlineExceeded
    /\ werr # NoErr /\ lastObserved = Nil
    /\ maxWaitTime = 3 /\ pollInterval = 1

(***************************************************************************)
(* Properties of the requests Client.SendWithContext issues.               *)
(***************************************************************************)
\* the date inside the string the signature of an Authorization header signs
\* (the signature is empty when the access key does not decode)
SignedDate(authHeader) == authHeader[2][2][3][7]

\* a step that hands a request of SendWithContext to the transport
IssuesRequest == spc # "inflight" /\ spc' = "inflight"

\* C11: every attempt of send() is authenticated afresh.  In the signing
\* modes the Date header of a request is the time at which that attempt is
\* issued, not the date of an earlier attempt, and the date inside the
\* signed string of the request is the Date header of the same request.
C11_FreshAuthentication ==
    [][(IssuesRequest /\ authMethod # AuthMethodAccessKey)
         => LET h == request'.headers IN
            /\ h["Date"] = FormatRFC1123(clock')
            /\ Base64Decodes(accessKey) => SignedDate(h["Authorization"]) = h["Date"]]_vars

C11_Witness ==
    /\ spc = "inflight" /\ attempt = 1 /\ authMethod = AuthMethodHMAC
    /\ Base64Decodes(accessKey)
    /\ prevRequest # NoRequest
    /\ prevRequest.headers["Date"] = FormatRFC1123(0)
    /\ request.headers["Date"] = FormatRFC1123(1)
    /\ SignedDate(request.headers["Authorization"]) = FormatRFC1123(1)

\* the caller's context is cancelled while send() is blocked in the wait
\* between two attempts
CancelledInRetryWait ==
    spc = "retryWait" /\ woke = "none" /\ ~sctxDone /\ sctxDone'

\* C12: when the caller's cancellation fires while send() waits retryDelay
\* before a retry, the wait ends with that event: from then on send() issues
\* no further HTTP attempt and its next step returns a nil result with the
\* cancellation error.
C12_CancelEndsRetryWait ==
    [][/\ CancelledInRetryWait => (spc' = "retryWait" /\ woke' = "ctx")
       /\ (spc = "retryWait" /\ woke = "ctx")
            => /\ httpAttempts' = httpAttempts /\ waits' = waits
               /\ \/ spc' = "retryWait" /\ woke' = "ctx"
                  \/ spc' = "done" /\ sret' = [resp |-> Nil, err |-> CtxCanceled]]_vars

C12_Witness ==
    /\ spc = "done" /\ sret = [resp |-> Nil, err |-> CtxCanceled]
    /\ retryDelay = 1 /\ maxRetries = 2
    /\ lastOutcome = TransportError(ConnRefused)
    /\ httpAttempts = 1 /\ waits = 0

C13_NoDataRace == ~DataRace

\* the configuration the constructors fix: endpoint, credential, auth mode,
\* API version, HTTP timeout, retry count and retry delay
FixedConfig ==
    <<endpoint, accessKey, authMethod, apiVersion, httpTimeout, maxRetries, retryDelay>>

CredentialHeaders(r) ==
    LET h == r.headers
        names == DOMAIN h
        signing == {"Date", "Authorization", "x-ms-content-sha256"}
    IN  /\ authMethod = AuthMethodAccessKey
             => /\ "api-key" \in names /\ h["api-key"] = accessKey
                /\ names \cap signing = {}
        /\ authMethod \in {AuthMethodHMAC, AuthMethodConnectionString}
             => /\ signing \subseteq names
                /\ "api-key" \notin names
                /\ h["x-ms-content-sha256"] = ContentHash(r.body)
                /\ r.method = "GET" => r.body = EmptyString

\* C17: a client is in one of three credential modes.  In the static-key
\* mode every request carries the api-key header with the raw key and none of
\* Date, Authorization and x-ms-content-sha256; in the two signing modes
\* every request carries those three and no api-key header, the content hash
\* being that of the request body, which is the empty string for a GET.
C17_CredentialModes ==
    /\ authMethod \in AuthMethods
    /\ request # NoRequest => (request.method = "POST" /\ CredentialHeaders(request))
    /\ grequest # NoRequest => (grequest.method = "GET" /\ CredentialHeaders(grequest))

C17_Witness ==
    /\ op = "GetStatus" /\ gpc = "inflight" /\ authMethod = AuthMethodConnectionString
    /\ grequest.headers["x-ms-content-sha256"] = ContentHash(EmptyString)
    /\ "api-key" \notin DOMAIN grequest.headers

\* C20: within one call of send() and within one call of
\* waitForCompletion() at most one HTTP request is in flight: a request is
\* handed to the transport only when the one before it has returned.
C20_SequentialRequests ==
    /\ sInFlight \in {0, 1} /\ (sInFlight = 1 <=> spc = "inflight")
    /\ wInFlight \in {0, 1} /\ (wInFlight = 1 <=> wpc = "fetching")

C20_Witness ==
    /\ op = "WaitForCompletion" /\ wpc = "fetching" /\ wInFlight = 1
    /\ lastObserved # Nil

(***************************************************************************)
(* Properties of NewClientFromConnectionString.                            *)
(***************************************************************************)
\* the values of the fields of connection string str that start with prefix
FieldValues(str, prefix) ==
    LET parts == Split(str, ";") IN
    {TrimPrefix(parts[i], prefix) : i \in {j \in 1..Len(parts) : HasPrefix(parts[j], prefix)}}

\* the value of the last such field, the empty string when there is none
LastFieldValue(str, prefix) ==
    LET parts == Split(str, ";")
        at == {j \in 1..Len(parts) : HasPrefix(parts[j], prefix)}
    IN  IF at = {} THEN EmptyString
        ELSE TrimPrefix(parts[CHOOSE j \in at : \A k \in at : k <= j], prefix)

ConnStrReturned == ppc = "returned"

\* C16 as stated: the call succeeds exactly when the string contains an
\* endpoint= field and an accesskey= field with non-empty values; the parsed
\* endpoint and key are values of such fields; a failed call returns an error
\* and no client.
C16_ParsesIffBothFields ==
    ConnStrReturned =>
      LET eps == FieldValues(pin, "endpoint=") \ {EmptyString}
          keys == FieldValues(pin, "accesskey=") \ {EmptyString}
      IN  /\ pout.err = NoErr <=> (eps # {} /\ keys # {})
          /\ pout.err = NoErr
               => /\ pout.parsed.Endpoint \in eps
                  /\ pout.parsed.AccessKey \in keys
                  /\ pout.client # Nil
          /\ pout.err # NoErr => pout.client = Nil

\* C16, amended: the call succeeds exactly when the last endpoint= field and
\* the last accesskey= field of the string exist and have non-empty values,
\* in either order; the parsed endpoint and key are the values of those two
\* fields; a failed call returns an error and no client.
C16_ParsesIffLastFields ==
    ConnStrReturned =>
      LET ep == LastFieldValue(pin, "endpoint=")
          key == LastFieldValue(pin, "accesskey=")
      IN  /\ pout.err = NoErr <=> (ep # EmptyString /\ key # EmptyString)
          /\ pout.err = NoErr
               => /\ pout.parsed.Endpoint = ep
                  /\ pout.parsed.AccessKey = key
                  /\ pout.client # Nil
                  /\ pout.client.accessKey = key
                  /\ pout.client.authMethod = AuthMethodConnectionString
          /\ pout.err # NoErr => pout.client = Nil

C16_Witness ==
    /\ ConnStrReturned
    /\ pin = <<"accesskey=", "QUJD", ";", "endpoint=", "https://acs">>
    /\ pout.err = NoErr
    /\ pout.parsed = [Endpoint |-> <<"https://acs">>, AccessKey |-> <<"QUJD">>]

(***************************************************************************)
(* Properties of the message builder.                                      *)
(***************************************************************************)
\* C18: build() succeeds exactly when the sender is set, there is at least
\* one recipient across to, cc and bcc, the subject is non-empty and
\* plainText or html is non-empty; it then returns the message that was
\* built, and otherwise a validation error and no message.
C18_BuildValidates ==
    ppc = "built" =>
      LET valid == /\ pin.sender # ""
                   /\ pin.to \o pin.cc \o pin.bcc # <<>>
                   /\ pin.subject # ""
                   /\ (pin.plainText # "" \/ pin.html # "")
      IN  /\ pout.err = NoErr <=> valid
          /\ pout.err = NoErr => pout.message = pin
          /\ pout.err # NoErr => pout.message = Nil

C18_Witness ==
    /\ ppc = "built" /\ pout.err = NoErr
    /\ pout.message.to = <<>> /\ pout.message.bcc = <<"b@x.com">>
    /\ pout.message.plainText = "" /\ pout.message.html = "body"

(***************************************************************************)
(* Properties of the configuration of the command-line tool.               *)
(***************************************************************************)
\* what the documented precedence gives setting k: the flag when it is
\* given, else the environment variable when it is set, else the value of
\* the config file when it has one, else the default
Precedence(file, env, args, k) ==
    IF args[k] # Absent
    THEN (IF k = "from" THEN args[k].val ELSE args[k].val \in {"true", "1", ""})
    ELSE IF env[k] # ""
         THEN (IF k = "from" THEN env[k] ELSE parseBool(env[k]))
         ELSE IF file[k] # Absent THEN file[k].val
              ELSE DefaultConfig[k]

\* C19: the configuration LoadConfig returns follows the precedence
\* defaults < config file < environment < flags: a value of the config file
\* or of the environment stays in effect when its flag is not given.
C19_ConfigPrecedence ==
    (ppc = "returned" /\ pout.err = NoErr)
      => \A k \in DOMAIN DefaultConfig :
            pout.config[k] = Precedence(pin.file, pin.env, pin.args, k)

(***************************************************************************)
(* Properties of the retry loop of Client.SendWithContext.                 *)
(***************************************************************************)
\* the call ended at line 177, with the aggregate error
SendExhausted ==
    spc = "done" /\ sret.err.fmt = "failed to send email after %d attempts: %w"

\* C21: retry delay placement in send().  No delay precedes the first
\* attempt, exactly one retryDelay wait precedes every later attempt (attempt
\* number k+1 starts after k waits), no wait follows a failed attempt that is
\* the last one, and a call that fails after N+1 attempts has waited
\* retryDelay exactly N times.
C21_RetryDelayPlacement ==
    /\ spc \in {"idle", "loop"} => waits = 0
    /\ spc = "inflight" => waits = attempt
    /\ spc = "retryWait" => (attempt >= 1 /\ attempt <= maxRetries /\ waits = attempt - 1)
    /\ (spc = "done" /\ sret.err = NoErr) => waits = attempt
    /\ (spc = "done" /\ sret.err = CtxCanceled) => waits = attempt - 1
    /\ (SendExhausted /\ maxRetries >= 0)
          => (attempt = maxRetries + 1 /\ waits = maxRetries)
    /\ (SendExhausted /\ maxRetries < 0) => (attempt = 0 /\ waits = 0)

C21_Witness ==
    /\ SendExhausted /\ maxRetries = 2 /\ retryDelay = 1
    /\ httpAttempts = 3 /\ waits = 2 /\ ~sctxDone

(***************************************************************************)
(* Properties of the loop of Client.WaitForCompletionWithContext.          *)
(***************************************************************************)
\* the call is at one of its two selects, after a failed fetch or after a
\* status that is not final
AtSelect == wpc \in {"selectErr", "selectOk"}

\* a step that starts a status fetch
StartsFetch == wpc # "fetching" /\ wpc' = "fetching"

\* C22: deadline versus interval in waitForCompletion.  After a status that
\* is not terminal or a failed fetch, the next fetch starts only with a tick
\* of the ticker, and never once the deadline has elapsed: a call whose
\* deadline is reached at its select returns the timeout without another
\* fetch.
C22_NoFetchAfterDeadline ==
    [][(AtSelect /\ StartsFetch)
         => (tickReady /\ ~tickReady' /\ wctxErr # CtxDeadlineExceeded)]_vars

(***************************************************************************)
(* Properties of the two constructors.                                     *)
(***************************************************************************)
\* the headers of the signing modes
SigningHeaders == {"Date", "Authorization", "x-ms-content-sha256"}

\* C23: the client built from the connection string "endpoint=E;accesskey=K"
\* is equivalent to the client NewClient(E, K): it is built, with the same
\* endpoint (E without one trailing slash) and the same key, and for the same
\* call at the same date both clients build the same request or fail alike:
\* the same URL under that endpoint and the same Date, Authorization and
\* x-ms-content-sha256 headers.
C23_ConnectionStringEquivalent ==
    /\ ppc = "constructed"
          => /\ pout.conn.err = NoErr
             /\ pout.conn.client.endpoint = pout.direct.endpoint
             /\ pout.direct.endpoint = TrimSuffixSlash(pin.E)
             /\ pout.conn.client.accessKey = pout.direct.accessKey
    /\ ppc = "requested"
          => /\ pout.conn.err = pout.direct.err
             /\ pout.direct.err = NoErr
                   => /\ pout.conn.req.method = pout.direct.req.method
                      /\ pout.conn.req.url = pout.direct.req.url
                      /\ SubSeq(pout.conn.req.url, 1, Len(TrimSuffixSlash(pin.E)))
                            = TrimSuffixSlash(pin.E)
                      /\ pout.conn.req.body = pout.direct.req.body
                      /\ SigningHeaders \subseteq DOMAIN pout.conn.req.headers
                      /\ \A h \in SigningHeaders :
                            pout.conn.req.headers[h] = pout.direct.req.headers[h]

C23_Witness ==
    /\ ppc = "requested"
    /\ pin.E = <<"https://", "acs.test", "/">> /\ pin.K = <<"Q","U","J","D">>
    /\ pin.call.call = "Send" /\ pin.call.now = 1
    /\ pout.conn.err = NoErr
    /\ pout.conn.req.url = SendURL(<<"https://", "acs.test">>, APIVersion)
    /\ pout.conn.req.headers["Date"] = FormatRFC1123(1)
    /\ pout.conn.req.headers["Authorization"] = pout.direct.req.headers["Authorization"]

\* C24: the result shape of waitForCompletion.  A nil error comes only with
\* a StatusResult that is not nil and whose status is Delivered, Failed or
\* Canceled; with an error comes either no StatusResult or one whose status
\* is not terminal.
C24_ResultShape ==
    WaitReturned
    => /\ wret.err = NoErr
             => (wret.resp # Nil /\ wret.resp.Status \in TerminalStatuses)
       /\ wret.err # NoErr
             => (wret.resp = Nil \/ wret.resp.Status \notin TerminalStatuses)

C24_Witness ==
    /\ WaitReturned /\ wret.err = CtxDeadlineExceeded
    /\ wret.resp # Nil /\ wret.resp.Status = "Sending"
    /\ onUpdateCalls = 1

\* C25: send() makes at least one attempt and reports no failure without a
\* cause.  For every maxRetries, zero and negative values included, a call
\* that has returned has called sendSingleAttempt at least once, and an
\* error it returns is the error of the context or wraps an error that is
\* not nil.
C25_AttemptsAndCause ==
    spc = "done"
    => /\ (attempt >= 1 \/ httpAttempts >= 1)
       /\ sret.err # NoErr
             => (sret.err = CtxCanceled \/ Unwrap(sret.err) # NoErr)

\* C26: waitForCompletion ends normally for every WaitOptions value: for
\* any pollInterval and maxWaitTime, zero included, the call does not panic.
C26_NeverPanics == wpc # "panicked"

(***************************************************************************)
(* Properties of clients built on ClientOptions objects.                   *)
(***************************************************************************)
\* what client i reads as its configuration: c.options.Debug, c.logger,
\* c.options.Logger and c.options.APIVersion
ConfigOf(i) ==
    [debug |-> optionsHeap[clients[i].options].Debug,
     logger |-> clients[i].logger,
     optLogger |-> optionsHeap[clients[i].options].Logger,
     apiVersion |-> optionsHeap[clients[i].options].APIVersion]

\* C27: clients are independent of each other.  A SetDebug or SetLogger
\* call on one client leaves the debug setting, the logger and the rest of
\* the configuration of every other client as they were, also when both
\* clients were built from the same ClientOptions; and building a client
\* leaves the ClientOptions the caller supplied as it was.
C27_ClientsIndependent ==
    [][/\ \A i \in ClientIds :
            (clients[i].built /\ lastCall'.call \in {"SetDebug", "SetLogger"}
               /\ lastCall'.client # i)
            => ConfigOf(i)' = ConfigOf(i)
       /\ lastCall'.call = "NewClient"
            => optionsHeap'[lastCall'.addr] = optionsHeap[lastCall'.addr]]_vars

\* C28: once the caller's cancellation has fired, send() starts no new
\* attempt: not the first one when the context is cancelled before the call,
\* and not attempt k+1 when it fires while attempt k is in flight or before
\* the loop reaches its next attempt, for any retryDelay, zero included.
C28_NoAttemptAfterCancel ==
    [][sctxDone => ~IssuesRequest]_vars

\* C29: the first status fetch of waitForCompletion is issued at once,
\* before any wait for the ticker and before any look at the deadline: the
\* first step of every call starts a fetch, whatever maxWaitTime is, and a
\* call that returns has had a fetch return and has invoked the callback of
\* that fetch's outcome, onError or onStatusUpdate, when it is set.
C29_FirstFetchImmediate ==
    [][/\ (wpc = "idle" /\ wpc' # "idle") => (wpc' = "fetching" /\ wInFlight' = 1)
       /\ (wpc # "done" /\ wpc' = "done")
            => /\ werr' # NoErr \/ wstatus' # Nil
               /\ (werr' # NoErr /\ hasOnError) => onErrorCalls' >= 1
               /\ (wstatus' # Nil /\ hasOnStatusUpdate) => onUpdateCalls' >= 1]_vars

\* C30: all attempts of one send() call transmit the same request.  The
\* message is serialized once and the URL built once, ahead of the loop;
\* every request handed to the transport carries that body and that URL,
\* hence the body and the URL of the attempt before it, and no step of
\* send() changes the message it was given.
C30_SameRequestEveryAttempt ==
    [][/\ IssuesRequest
            => /\ body = Marshal(message) /\ url = SendURL(endpoint, apiVersion)
               /\ request'.body = body /\ request'.url = url
               /\ request # NoRequest
                     => (request'.body = request.body /\ request'.url = request.url)
       /\ spc # "idle" => (body' = body /\ url' = url)
       /\ message' = message]_vars

C30_Witness ==
    /\ spc = "inflight" /\ attempt = 2 /\ authMethod = AuthMethodHMAC
    /\ prevRequest # NoRequest
    /\ request.body = Marshal(Message) /\ prevRequest.body = request.body
    /\ prevRequest.url = request.url
    /\ prevRequest.headers["Date"] # request.headers["Date"]

====
